---- MODULE Spec2Model ----
(***************************************************************************)
(* Model of namedb: the name-similarity engine (utils/nameSimilarity) with *)
(* its comparators, path classification and the aggregator                 *)
(* findSimilarNames; the rhyme test of utils/phoneticUtils; the taxonomy   *)
(* filters of the pages; and the hook useNameStorage with its saves, its   *)
(* POSTs to the server and its retry queue.                                *)
(*                                                                         *)
(* A JavaScript string is a sequence of one-character strings, so that     *)
(* toLowerCase, trim, split, includes and join are computed character by   *)
(* character.  An optional value is <<>> when absent (undefined) and <<v>> *)
(* when present.                                                           *)
(***************************************************************************)
EXTENDS Integers, Sequences, FiniteSets, TLC

VARIABLES
    name,        \* findSimilarNames: the target (parameter `name`)
    allNames,    \* findSimilarNames: the corpus (parameter `allNames`)
    threshold,   \* findSimilarNames: parameter `threshold`
    similar,     \* findSimilarNames: the local list `similar`, then the returned list
    idx,         \* position of forEach in allNames (1-based, next element to visit)
    pc,          \* "scan" | "sort" | "done" | "error" | "idle"
    p1,          \* a comparison of two strings: the first string
    p2,          \* a comparison of two strings: the second string
    pairKind,    \* "none" | the comparison made ("category", "origin", "roots") | "idle"
    pairScore,   \* the value the comparison returned
    namePaths,   \* taxonomy filters: `name.origin` or `name.meanings` of the name filtered
    selected,    \* taxonomy filters: `selectedOrigins` or `selectedCategories`
    levels,      \* library page: <<meaningFilter, subcategoryFilter, subsubcategoryFilter>>
    filterKind,  \* "none" | the filter applied | "idle"
    passes,      \* taxonomy filters: the name is kept by the filter
    names,       \* useNameStorage: the state `names` of the current render
    stored,      \* useNameStorage: the list saved in localStorage
    lastMerge,   \* the last call of mergeNameEntries: its ids and `names` before it
    pending,     \* localStorage key loreweaver-names:pending: the queue of snapshots
    server,      \* the names stored by the server, None while unknown to the model
    flights,     \* the POSTs to /api/names awaiting their return in the client
    healed,      \* from here on every POST succeeds
    saveCount    \* number of calls of saveNames so far

mainVars == <<name, allNames, threshold, similar, idx, pc>>
pairVars == <<p1, p2, pairKind, pairScore>>
filterVars == <<namePaths, selected, levels, filterKind, passes>>
storeVars == <<names, stored, lastMerge>>
syncVars == <<pending, server, flights, healed, saveCount>>
auxVars == <<filterVars, storeVars, syncVars>>

vars == <<mainVars, pairVars, filterVars, storeVars, syncVars>>

----------------------------------------------------------------------------
(* Optional values *)

None == <<>>
Some(v) == <<v>>
IsSome(o) == Len(o) = 1
Val(o) == o[1]

----------------------------------------------------------------------------
(* Strings as sequences of characters *)

UpperChars == <<"A","B","C","D","E","F","G","H","I","J","K","L","M",
                "N","O","P","Q","R","S","T","U","V","W","X","Y","Z">>
LowerChars == <<"a","b","c","d","e","f","g","h","i","j","k","l","m",
                "n","o","p","q","r","s","t","u","v","w","x","y","z">>
UpperSet == {UpperChars[i] : i \in 1..26}
LowerMap == [c \in UpperSet |-> LowerChars[CHOOSE i \in 1..26 : UpperChars[i] = c]]

ToLowerChar(c) == IF c \in UpperSet THEN LowerMap[c] ELSE c

\* String.prototype.toLowerCase
toLowerCase(s) == [i \in 1..Len(s) |-> ToLowerChar(s[i])]

IsSpace(c) == c = " "

RECURSIVE trimStart(_)
trimStart(s) == IF s # <<>> /\ IsSpace(Head(s)) THEN trimStart(Tail(s)) ELSE s

RECURSIVE trimEnd(_)
trimEnd(s) ==
    IF s # <<>> /\ IsSpace(s[Len(s)]) THEN trimEnd(SubSeq(s, 1, Len(s) - 1)) ELSE s

\* String.prototype.trim
trim(s) == trimEnd(trimStart(s))

\* String.prototype.includes
includes(s, sub) ==
    \E i \in 0..(Len(s) - Len(sub)) : SubSeq(s, i + 1, i + Len(sub)) = sub

\* Array.prototype.includes on a list of strings
arrayIncludes(list, s) == \E i \in 1..Len(list) : list[i] = s

\* the least element of a non-empty set of numbers
SetMin(S) == CHOOSE x \in S : \A y \in S : x <= y

\* String.prototype.indexOf(sep, from), 1-based: the first position at or
\* after `from` where sep occurs in s, 0 when there is none
IndexOfFrom(s, sep, from) ==
    LET found == {i \in from..(Len(s) - Len(sep) + 1) :
                     SubSeq(s, i, i + Len(sep) - 1) = sep}
    IN  IF found = {} THEN 0 ELSE SetMin(found)

\* String.prototype.split with a non-empty string separator: the pieces
\* between the occurrences of sep, found from left to right
RECURSIVE SplitFrom(_, _, _)
SplitFrom(s, sep, from) ==
    LET i == IndexOfFrom(s, sep, from)
    IN  IF i = 0 THEN <<SubSeq(s, from, Len(s))>>
        ELSE <<SubSeq(s, from, i - 1)>> \o SplitFrom(s, sep, i + Len(sep))

split(s, sep) == SplitFrom(s, sep, 1)

\* Array.prototype.join
RECURSIVE join(_, _)
join(list, sep) ==
    IF list = <<>> THEN <<>>
    ELSE IF Len(list) = 1 THEN list[1]
         ELSE list[1] \o sep \o join(Tail(list), sep)

\* String.prototype.replace(/[...]/g, '') : drop every character of `chars`
RECURSIVE removeChars(_, _)
removeChars(s, chars) ==
    IF s = <<>> THEN <<>>
    ELSE IF Head(s) \in chars THEN removeChars(Tail(s), chars)
         ELSE <<Head(s)>> \o removeChars(Tail(s), chars)

Min2(a, b) == IF a <= b THEN a ELSE b
Max2(a, b) == IF a >= b THEN a ELSE b
Abs(a) == IF a < 0 THEN 0 - a ELSE a

----------------------------------------------------------------------------
(* levenshteinDistance: the matrix is filled row by row, row i for          *)
(* str2[i], column j for str1[j]; a row is kept as a sequence whose entry   *)
(* j+1 is matrix[i][j].  A row is complete before the next one starts: it   *)
(* is bound as the one element of a set.                                    *)

\* variant of LevFillRow: a differing character is never substituted
RECURSIVE LevFillRowNoSubstitute(_, _, _, _, _)
LevFillRowNoSubstitute(prev, cur, j, c2, str1) ==
    IF j > Len(str1) THEN cur
    ELSE CHOOSE full \in {LevFillRowNoSubstitute(prev, Append(cur, cell), j + 1, c2, str1) :
                           cell \in {IF c2 = str1[j] THEN prev[j]
                                     ELSE Min2(cur[j] + 1, prev[j + 1] + 1)}} : TRUE

RECURSIVE LevFillRow(_, _, _, _, _)
LevFillRow(prev, cur, j, c2, str1) ==
    IF j > Len(str1) THEN cur
    ELSE CHOOSE full \in {LevFillRow(prev, Append(cur, cell), j + 1, c2, str1) :
                           cell \in {IF c2 = str1[j]
                                     THEN prev[j]
                                     ELSE Min2(prev[j] + 1,
                                               Min2(cur[j] + 1, prev[j + 1] + 1))}} : TRUE

RECURSIVE LevRows(_, _, _, _)
LevRows(prev, i, str1, str2) ==
    IF i > Len(str2) THEN prev
    ELSE CHOOSE last \in {LevRows(row, i + 1, str1, str2) :
                           row \in {LevFillRow(prev, <<i>>, 1, str2[i], str1)}} : TRUE

levenshteinDistance(str1, str2) ==
    LevRows([j \in 1..(Len(str1) + 1) |-> j - 1], 1, str1, str2)[Len(str1) + 1]

----------------------------------------------------------------------------
(* Hierarchical paths *)

PathSep == <<" ", ">", " ">>

RECURSIVE Cumulative(_, _)
Cumulative(parts, i) ==
    IF i > Len(parts) THEN <<>>
    ELSE <<join(SubSeq(parts, 1, i), PathSep)>> \o Cumulative(parts, i + 1)

\* getCategoryHierarchy: all ancestor paths of a path, shortest first
getCategoryHierarchy(category) ==
    LET raw == split(category, PathSep)
        parts == [i \in 1..Len(raw) |-> trim(raw[i])]
    IN  Cumulative(parts, 1)

\* the loop `for (i = 0; i < min; i++) if (h1[i] === h2[i]) commonDepth = i + 1; else break`
RECURSIVE CommonDepthFrom(_, _, _)
CommonDepthFrom(h1, h2, i) ==
    IF i > Min2(Len(h1), Len(h2)) THEN i - 1
    ELSE IF h1[i] = h2[i] THEN CommonDepthFrom(h1, h2, i + 1)
         ELSE i - 1

CommonDepth(h1, h2) == CommonDepthFrom(h1, h2, 1)

CategoryExact == 70
CategorySibling == 40
CategoryParentChild == 30
CategoryCousin == 10

\* variant of CategoryPairScore: any common ancestor scores the cousin tier
CategoryPairScoreAnyAncestor(cat1, cat2) ==
    IF CommonDepth(getCategoryHierarchy(cat1), getCategoryHierarchy(cat2)) = 0 THEN 0
    ELSE IF cat1 = cat2 THEN CategoryExact
    ELSE CategoryCousin

\* body of the inner loop of getHierarchicalCategorySimilarity for one pair;
\* a pair skipped by `continue` leaves maxScore alone, as a score of 0 does
CategoryPairScore(cat1, cat2) ==
    LET h1 == getCategoryHierarchy(cat1)
        h2 == getCategoryHierarchy(cat2)
        commonDepth == CommonDepth(h1, h2)
        m == Min2(Len(h1), Len(h2))
    IN  IF commonDepth = 0 THEN 0
        ELSE IF cat1 = cat2 THEN CategoryExact
        ELSE IF commonDepth = m
             THEN (IF Len(h1) = Len(h2) THEN CategorySibling ELSE CategoryParentChild)
        ELSE IF commonDepth = m - 1 THEN CategoryCousin
        ELSE 0

\* maxScore after the two nested for-of loops over meanings1 and meanings2
RECURSIVE CategoryMaxFrom(_, _, _, _)
CategoryMaxFrom(meanings1, meanings2, i, j) ==
    IF i > Len(meanings1) THEN 0
    ELSE IF j > Len(meanings2) THEN CategoryMaxFrom(meanings1, meanings2, i + 1, 1)
         ELSE Max2(CategoryPairScore(meanings1[i], meanings2[j]),
                   CategoryMaxFrom(meanings1, meanings2, i, j + 1))

getHierarchicalCategorySimilarity(meanings1, meanings2) ==
    IF Len(meanings1) = 0 \/ Len(meanings2) = 0 THEN 0
    ELSE CategoryMaxFrom(meanings1, meanings2, 1, 1)

OriginExact == 45
OriginSibling == 25
OriginParentChild == 20
OriginCousin == 8

\* variant of OriginPairScore: a full common prefix always scores the sibling tier
OriginPairScoreNoParentChild(o1, o2) ==
    IF CommonDepth(getCategoryHierarchy(o1), getCategoryHierarchy(o2)) = 0 THEN 0
    ELSE IF o1 = o2 THEN OriginExact
    ELSE IF CommonDepth(getCategoryHierarchy(o1), getCategoryHierarchy(o2))
              = Min2(Len(getCategoryHierarchy(o1)), Len(getCategoryHierarchy(o2)))
         THEN OriginSibling
    ELSE IF CommonDepth(getCategoryHierarchy(o1), getCategoryHierarchy(o2))
              = Min2(Len(getCategoryHierarchy(o1)), Len(getCategoryHierarchy(o2))) - 1
         THEN OriginCousin
    ELSE 0

\* body of the inner loop of getHierarchicalOriginSimilarity for one pair
OriginPairScore(o1, o2) ==
    LET h1 == getCategoryHierarchy(o1)
        h2 == getCategoryHierarchy(o2)
        commonDepth == CommonDepth(h1, h2)
        m == Min2(Len(h1), Len(h2))
    IN  IF commonDepth = 0 THEN 0
        ELSE IF o1 = o2 THEN OriginExact
        ELSE IF commonDepth = m
             THEN (IF Len(h1) = Len(h2) THEN OriginSibling ELSE OriginParentChild)
        ELSE IF commonDepth = m - 1 THEN OriginCousin
        ELSE 0

\* maxScore after the two nested for-of loops over origin1 and origin2
RECURSIVE OriginMaxFrom(_, _, _, _)
OriginMaxFrom(origin1, origin2, i, j) ==
    IF i > Len(origin1) THEN 0
    ELSE IF j > Len(origin2) THEN OriginMaxFrom(origin1, origin2, i + 1, 1)
         ELSE Max2(OriginPairScore(origin1[i], origin2[j]),
                   OriginMaxFrom(origin1, origin2, i, j + 1))

\* origin1, origin2 are optional lists
getHierarchicalOriginSimilarity(origin1, origin2) ==
    IF ~IsSome(origin1) \/ ~IsSome(origin2) THEN 0
    ELSE IF Len(Val(origin1)) = 0 \/ Len(Val(origin2)) = 0 THEN 0
    ELSE OriginMaxFrom(Val(origin1), Val(origin2), 1, 1)

----------------------------------------------------------------------------
(* Spelling, exact-origin and feelings helpers *)

\* getSoundSimilarity; distance <= maxLength * 0.3 is compared in tenths
\* variant of getSoundSimilarity: equal names count as similar
getSoundSimilarityOrEqual(name1, name2) ==
    IF Abs(Len(name1) - Len(name2)) > 3 THEN FALSE
    ELSE 10 * levenshteinDistance(toLowerCase(name1), toLowerCase(name2))
            <= 3 * Max2(Len(name1), Len(name2))

\* variant of getSoundSimilarity: a distance up to half the length will do
getSoundSimilarityHalf(name1, name2) ==
    IF Abs(Len(name1) - Len(name2)) > 3 THEN FALSE
    ELSE /\ 2 * levenshteinDistance(toLowerCase(name1), toLowerCase(name2))
              <= Max2(Len(name1), Len(name2))
         /\ levenshteinDistance(toLowerCase(name1), toLowerCase(name2)) > 0

getSoundSimilarity(name1, name2) ==
    LET n1 == toLowerCase(name1)
        n2 == toLowerCase(name2)
    IN  IF Abs(Len(n1) - Len(n2)) > 3 THEN FALSE
        ELSE LET distance == levenshteinDistance(n1, n2)
                 maxLength == Max2(Len(n1), Len(n2))
             IN  10 * distance <= 3 * maxLength /\ distance > 0

\* getOriginSimilarity: origin1, origin2 are optional lists
getOriginSimilarity(origin1, origin2) ==
    IF ~IsSome(origin1) \/ ~IsSome(origin2) THEN FALSE
    ELSE IF Len(Val(origin1)) = 0 \/ Len(Val(origin2)) = 0 THEN FALSE
    ELSE \E i \in 1..Len(Val(origin1)) : \E j \in 1..Len(Val(origin2)) :
            toLowerCase(Val(origin1)[i]) = toLowerCase(Val(origin2)[j])

\* getFeelingsSimilarity on two lists
getFeelingsSimilarity(feelings1, feelings2) ==
    IF Len(feelings1) = 0 \/ Len(feelings2) = 0 THEN FALSE
    ELSE \E i \in 1..Len(feelings1) : \E j \in 1..Len(feelings2) :
            LET f1 == toLowerCase(feelings1[i])
                f2 == toLowerCase(feelings2[j])
            IN  f1 = f2 \/ includes(f1, f2) \/ includes(f2, f1)

\* `list1.length === 0 || list2.length === 0` on optional lists: reading
\* .length of undefined raises a TypeError; list2 is read only when list1 is
\* a non-empty list
LengthTestThrows(list1, list2) ==
    IF ~IsSome(list1) THEN TRUE
    ELSE IF Len(Val(list1)) = 0 THEN FALSE
    ELSE ~IsSome(list2)

\* the list of an optional list that the length test let through
ListOf(o) == IF IsSome(o) THEN Val(o) ELSE <<>>

----------------------------------------------------------------------------
(* Root parsing and comparison *)

FirstIndexOf(s, c) ==
    IF \E i \in 1..Len(s) : s[i] = c
    THEN CHOOSE i \in 1..Len(s) : s[i] = c /\ \A j \in 1..(i - 1) : s[j] # c
    ELSE 0

\* parseRootElement: /^([^(]+?)(?:\s*\((.+)\))?$/ on the trimmed element.
\* Without "(" the whole text is group 1.  With a first "(" at position i the
\* optional group must match, since group 1 cannot hold "(": that needs a
\* non-empty text before it, a final ")" and at least one character between.
\* Otherwise the fallback takes the whole text as identifier.
parseRootElement(element) ==
    LET t == trim(element)
        i == FirstIndexOf(t, "(")
        grouped == /\ i >= 2
                   /\ t[Len(t)] = ")"
                   /\ Len(t) - 1 >= i + 1
    IN  IF grouped
        THEN [identifier |-> toLowerCase(trim(SubSeq(t, 1, i - 1))),
              explanation |-> Some(toLowerCase(trim(SubSeq(t, i + 1, Len(t) - 1)))),
              fullText |-> t]
        ELSE [identifier |-> toLowerCase(t),
              explanation |-> None,
              fullText |-> t]

QuoteChars == {"'", "\""}

\* a present, non-empty string (JavaScript truthiness of string | undefined)
Truthy(o) == IsSome(o) /\ Val(o) # <<>>

RootExact == 80
RootSameString == 80
RootSimilar == 70
RootHomograph == 50
RootIdentifierOnly == 60

\* variant of compareRootElements: two explanations always make a homograph
compareRootElementsHomograph(elem1, elem2) ==
    IF elem1.identifier # elem2.identifier THEN 0
    ELSE IF Truthy(elem1.explanation) /\ Truthy(elem2.explanation) THEN RootHomograph
    ELSE RootIdentifierOnly

\* compareRootElements
compareRootElements(elem1, elem2) ==
    IF elem1.identifier # elem2.identifier THEN 0
    ELSE IF Truthy(elem1.explanation) /\ Truthy(elem2.explanation)
         THEN LET exp1 == trim(removeChars(Val(elem1.explanation), QuoteChars))
                  exp2 == trim(removeChars(Val(elem2.explanation), QuoteChars))
              IN  IF exp1 = exp2 THEN RootExact
                  ELSE IF includes(exp1, exp2) \/ includes(exp2, exp1) THEN RootSimilar
                  ELSE RootHomograph
         ELSE RootIdentifierOnly

\* the number of white-space characters of s from position i on
SpacesFrom(s, i) ==
    CHOOSE k \in 0..(Len(s) - i + 1) :
        /\ \A m \in i..(i + k - 1) : IsSpace(s[m])
        /\ (i + k > Len(s) \/ ~IsSpace(s[i + k]))

\* length of the match of /\s*[+/]\s*/ that starts at position i of s, 0 when
\* there is none
SeparatorMatchAt(s, i) ==
    LET k == SpacesFrom(s, i)
    IN  IF i + k <= Len(s) /\ s[i + k] \in {"+", "/"}
        THEN k + 1 + SpacesFrom(s, i + k + 1)
        ELSE 0

\* the first position at or after `from` where the separator matches, 0 when
\* there is none
NextSeparator(s, from) ==
    LET found == {i \in from..Len(s) : SeparatorMatchAt(s, i) > 0}
    IN  IF found = {} THEN 0 ELSE SetMin(found)

\* root.split(/\s*[+/]\s*/)
RECURSIVE SplitRootFrom(_, _)
SplitRootFrom(s, from) ==
    LET i == NextSeparator(s, from)
    IN  IF i = 0 THEN <<SubSeq(s, from, Len(s))>>
        ELSE <<SubSeq(s, from, i - 1)>> \o SplitRootFrom(s, i + SeparatorMatchAt(s, i))

\* extractRootElements
extractRootElements(root) ==
    LET parts == SplitRootFrom(root, 1)
    IN  [i \in 1..Len(parts) |-> parseRootElement(parts[i])]

\* the two nested loops over elements1 and elements2: the matched pairs in
\* loop order, each with its score and the identifier of elem1
RECURSIVE ElementMatches(_, _, _, _)
ElementMatches(elements1, elements2, i, j) ==
    IF i > Len(elements1) THEN <<>>
    ELSE IF j > Len(elements2) THEN ElementMatches(elements1, elements2, i + 1, 1)
    ELSE LET elementScore == compareRootElements(elements1[i], elements2[j])
             rest == ElementMatches(elements1, elements2, i, j + 1)
         IN  IF elementScore > 0
             THEN <<[score |-> elementScore, id |-> elements1[i].identifier]>> \o rest
             ELSE rest

RECURSIVE SumScores(_)
SumScores(matches) ==
    IF matches = <<>> THEN 0 ELSE Head(matches).score + SumScores(Tail(matches))

RECURSIVE MaxScores(_)
MaxScores(matches) ==
    IF matches = <<>> THEN 0 ELSE Max2(Head(matches).score, MaxScores(Tail(matches)))

\* Math.round(a / b) for a >= 0, b > 0: halves round up
RoundDiv(a, b) == (2 * a + b) \div (2 * b)

\* variant of DetailedScore: fractions are dropped instead of rounded
DetailedScoreTruncated(matches, totalElements) ==
    IF 5 * Len(matches) >= 4 * totalElements
    THEN SumScores(matches) \div Len(matches)
    ELSE IF 2 * Len(matches) >= totalElements
         THEN (3 * SumScores(matches)) \div (4 * Len(matches))
         ELSE Min2(50, Max2(30, (6 * MaxScores(matches)) \div 10))

\* score of one pair of root strings on the detailed path, given its
\* non-empty list of matches; the ratios 0.8 and 0.5 and the factors 0.75
\* and 0.6 are computed in integers
DetailedScore(matches, totalElements) ==
    LET n == Len(matches)
        sum == SumScores(matches)
    IN  IF 5 * n >= 4 * totalElements THEN RoundDiv(sum, n)
        ELSE IF 2 * n >= totalElements THEN RoundDiv(3 * sum, 4 * n)
        ELSE Min2(50, Max2(30, RoundDiv(6 * MaxScores(matches), 10)))

\* a || b || c on strings: the first non-empty one, else the last
FirstNonEmpty(a, b, c) == IF a # <<>> THEN a ELSE IF b # <<>> THEN b ELSE c

\* one iteration of the inner loop of checkSharedRoots: the new
\* [maxScore, bestMatch] after the pair root1, root2
SharedRootsStep(acc, root1, root2) ==
    LET normalized1 == trim(toLowerCase(root1))
        normalized2 == trim(toLowerCase(root2))
    IN  IF normalized1 = normalized2
        THEN IF RootSameString > acc.maxScore
             THEN [maxScore |-> RootSameString,
                   bestMatch |-> trim(split(root1, <<"(">>)[1])]
             ELSE acc
        ELSE LET elements1 == extractRootElements(root1)
                 elements2 == extractRootElements(root2)
                 matches == ElementMatches(elements1, elements2, 1, 1)
             IN  IF Len(matches) = 0 THEN acc
                 ELSE LET score == DetailedScore(matches,
                                       Max2(Len(elements1), Len(elements2)))
                      IN  IF score > acc.maxScore
                          THEN [maxScore |-> score,
                                bestMatch |-> FirstNonEmpty(matches[1].id,
                                                  elements1[1].identifier, root1)]
                          ELSE acc

RECURSIVE SharedRootsFrom(_, _, _, _, _)
SharedRootsFrom(roots1, roots2, i, j, acc) ==
    IF i > Len(roots1) THEN acc
    ELSE IF j > Len(roots2) THEN SharedRootsFrom(roots1, roots2, i + 1, 1, acc)
    ELSE SharedRootsFrom(roots1, roots2, i, j + 1,
                         SharedRootsStep(acc, roots1[i], roots2[j]))

\* checkSharedRoots: None for null, else Some([score, sharedRoot])
checkSharedRoots(roots1, roots2) ==
    LET final == SharedRootsFrom(roots1, roots2, 1, 1,
                                 [maxScore |-> 0, bestMatch |-> <<>>])
    IN  IF final.maxScore > 0
        THEN Some([score |-> final.maxScore, sharedRoot |-> final.bestMatch])
        ELSE None

----------------------------------------------------------------------------
(* Pronunciation, etymology and literal meaning *)

IpaMarks == {"/", "[", "]"}

PronunciationExact == 80
PronunciationClose == 60
PronunciationNear == 40

\* variant of getPronunciationSimilarity: the 60-point tier reaches to
\* maxLength * 0.4
getPronunciationSimilarityWide(pronunciation1, pronunciation2) ==
    IF ~Truthy(pronunciation1) \/ ~Truthy(pronunciation2) THEN 0
    ELSE LET q1 == trim(removeChars(toLowerCase(Val(pronunciation1)), IpaMarks))
             q2 == trim(removeChars(toLowerCase(Val(pronunciation2)), IpaMarks))
         IN  IF q1 = q2 THEN PronunciationExact
             ELSE IF Max2(Len(q1), Len(q2)) = 0 THEN 0
             ELSE IF 5 * levenshteinDistance(q1, q2) <= 2 * Max2(Len(q1), Len(q2))
                  THEN PronunciationClose
             ELSE 0

\* getPronunciationSimilarity on optional strings; the tests against
\* maxLength * 0.2 and maxLength * 0.4 are made in fifths
getPronunciationSimilarity(pronunciation1, pronunciation2) ==
    IF ~Truthy(pronunciation1) \/ ~Truthy(pronunciation2) THEN 0
    ELSE LET q1 == trim(removeChars(toLowerCase(Val(pronunciation1)), IpaMarks))
             q2 == trim(removeChars(toLowerCase(Val(pronunciation2)), IpaMarks))
         IN  IF q1 = q2 THEN PronunciationExact
             ELSE LET distance == levenshteinDistance(q1, q2)
                      maxLength == Max2(Len(q1), Len(q2))
                  IN  IF maxLength = 0 THEN 0
                      ELSE IF 5 * distance <= maxLength THEN PronunciationClose
                      ELSE IF 5 * distance <= 2 * maxLength THEN PronunciationNear
                      ELSE 0

\* text.split(/\s+/): the maximal runs without white space, from left to
\* right; the empty strings split also yields at the ends are dropped here,
\* as the length filter of getWords drops them
WordStarts(s) == {i \in 1..Len(s) : ~IsSpace(s[i]) /\ (i = 1 \/ IsSpace(s[i - 1]))}

\* the run without white space that starts at position i
WordAt(s, i) ==
    SubSeq(s, i, i - 1 + CHOOSE k \in 1..(Len(s) - i + 1) :
                            /\ \A m \in i..(i + k - 1) : ~IsSpace(s[m])
                            /\ (i + k > Len(s) \/ IsSpace(s[i + k])))

RECURSIVE WordsFrom(_, _)
WordsFrom(s, starts) ==
    IF starts = {} THEN <<>>
    ELSE <<WordAt(s, SetMin(starts))>> \o WordsFrom(s, starts \ {SetMin(starts)})

SplitWhitespace(s) == WordsFrom(s, WordStarts(s))

stopWords == << <<"t","h","e">>, <<"a">>, <<"a","n">>, <<"f","r","o","m">>,
                <<"o","f">>, <<"i","n">>, <<"t","o">>, <<"a","n","d">>,
                <<"o","r">>, <<"v","i","a">>,
                <<"t","h","r","o","u","g","h">> >>

\* .filter(w => w.length > 3 && !stopWords.includes(w))
RECURSIVE FilterMeaningful(_)
FilterMeaningful(words) ==
    IF words = <<>> THEN <<>>
    ELSE IF Len(Head(words)) > 3 /\ ~arrayIncludes(stopWords, Head(words))
         THEN <<Head(words)>> \o FilterMeaningful(Tail(words))
         ELSE FilterMeaningful(Tail(words))

getWords(text) == FilterMeaningful(SplitWhitespace(text))

\* words1.filter(w => words2.includes(w))
RECURSIVE FilterShared(_, _)
FilterShared(words1, words2) ==
    IF words1 = <<>> THEN <<>>
    ELSE IF arrayIncludes(words2, Head(words1))
         THEN <<Head(words1)>> \o FilterShared(Tail(words1), words2)
         ELSE FilterShared(Tail(words1), words2)

EtymologyStrong == 75
EtymologyModerate == 50
EtymologyWeak == 25

\* getEtymologySimilarity on optional strings
getEtymologySimilarity(etymology1, etymology2) ==
    IF ~Truthy(etymology1) \/ ~Truthy(etymology2) THEN 0
    ELSE LET words1 == getWords(toLowerCase(Val(etymology1)))
             words2 == getWords(toLowerCase(Val(etymology2)))
             sharedWords == FilterShared(words1, words2)
         IN  IF Len(words1) = 0 \/ Len(words2) = 0 THEN 0
             ELSE IF Len(sharedWords) >= 3 THEN EtymologyStrong
             ELSE IF Len(sharedWords) = 2 THEN EtymologyModerate
             ELSE IF Len(sharedWords) = 1 THEN EtymologyWeak
             ELSE 0

MeaningExact == 60
MeaningPartial == 40

\* getLiteralMeaningSimilarity on optional strings
getLiteralMeaningSimilarity(meaning1, meaning2) ==
    IF ~Truthy(meaning1) \/ ~Truthy(meaning2) THEN 0
    ELSE LET m1 == trim(toLowerCase(Val(meaning1)))
             m2 == trim(toLowerCase(Val(meaning2)))
         IN  IF m1 = m2 THEN MeaningExact
             ELSE IF includes(m1, m2) \/ includes(m2, m1) THEN MeaningPartial
             ELSE 0

----------------------------------------------------------------------------
(* findSimilarNames: the per-candidate scoring *)

TagSharedRootOpen == <<"s","h","a","r","e","d"," ","r","o","o","t"," ","(">>
TagSharedRootClose == <<")">>
TagPronunciation == <<"s","i","m","i","l","a","r"," ","p","r","o","n","u","n","c","i","a","t","i","o","n">>
TagEtymology == <<"s","h","a","r","e","d"," ","e","t","y","m","o","l","o","g","y">>
TagCategory == <<"s","i","m","i","l","a","r"," ","c","a","t","e","g","o","r","y">>
TagMeaning == <<"s","i","m","i","l","a","r"," ","l","i","t","e","r","a","l"," ","m","e","a","n","i","n","g">>
TagSpelling == <<"s","i","m","i","l","a","r"," ","s","p","e","l","l","i","n","g">>
TagOrigin == <<"r","e","l","a","t","e","d"," ","o","r","i","g","i","n">>
TagFeeling == <<"s","i","m","i","l","a","r"," ","f","e","e","l","i","n","g">>
ReasonSeparator == <<",", " ">>

SpellingPoints == 50
FeelingPoints == 8

\* r.name of every declared relation, [] when relatedNames is absent
RelatedNamesOf(n) ==
    IF IsSome(n.relatedNames)
    THEN [i \in 1..Len(Val(n.relatedNames)) |-> Val(n.relatedNames)[i].name]
    ELSE <<>>

\* variant of IsDeclaredRelation: only the relations the target declares
IsDeclaredRelationForward(currentName, otherName) ==
    arrayIncludes(RelatedNamesOf(currentName), otherName.name)

\* exclusion rule 2
IsDeclaredRelation(currentName, otherName) ==
    \/ arrayIncludes(RelatedNamesOf(currentName), otherName.name)
    \/ arrayIncludes(RelatedNamesOf(otherName), currentName.name)

isFalseCognate(currentName, otherName) ==
    /\ toLowerCase(currentName.name) = toLowerCase(otherName.name)
    /\ ~getOriginSimilarity(currentName.origin, otherName.origin)

\* variant of Push: the tag goes to the front of the list
PushFront(acc, tag, points) ==
    [score |-> acc.score + points, reasons |-> <<tag>> \o acc.reasons]

\* reasons.push(tag); score += points
Push(acc, tag, points) ==
    [score |-> acc.score + points, reasons |-> Append(acc.reasons, tag)]

\* `if (rootMatch) { reasons.push(`shared root (${rootMatch.sharedRoot})`); score += rootMatch.score }`
PushRootMatch(acc, rootMatch) ==
    IF IsSome(rootMatch)
    THEN Push(acc,
              TagSharedRootOpen \o Val(rootMatch).sharedRoot \o TagSharedRootClose,
              Val(rootMatch).score)
    ELSE acc

AddRoots(acc, currentName, otherName) ==
    IF IsSome(currentName.roots) /\ IsSome(otherName.roots)
    THEN PushRootMatch(acc, checkSharedRoots(Val(currentName.roots), Val(otherName.roots)))
    ELSE acc

AddPronunciation(acc, currentName, otherName) ==
    LET pronunciationScore ==
            getPronunciationSimilarity(currentName.pronunciation, otherName.pronunciation)
    IN  IF pronunciationScore > 0 THEN Push(acc, TagPronunciation, pronunciationScore)
        ELSE acc

AddEtymology(acc, currentName, otherName) ==
    LET etymologyScore == getEtymologySimilarity(currentName.etymology, otherName.etymology)
    IN  IF etymologyScore > 0 THEN Push(acc, TagEtymology, etymologyScore) ELSE acc

\* called only when the length test of the category scorer does not throw
AddCategory(acc, currentName, otherName) ==
    LET categoryScore ==
            getHierarchicalCategorySimilarity(ListOf(currentName.meanings),
                                              ListOf(otherName.meanings))
    IN  IF categoryScore > 0 THEN Push(acc, TagCategory, categoryScore) ELSE acc

AddMeaning(acc, currentName, otherName) ==
    LET meaningScore == getLiteralMeaningSimilarity(currentName.meaning, otherName.meaning)
    IN  IF meaningScore > 0 THEN Push(acc, TagMeaning, meaningScore) ELSE acc

\* variant of AddSpelling: equal names count as similar spelling, and nothing
\* is suppressed
AddSpellingOnEqualNames(acc, currentName, otherName) ==
    IF \/ toLowerCase(currentName.name) = toLowerCase(otherName.name)
       \/ getSoundSimilarity(currentName.name, otherName.name)
    THEN [score |-> acc.score + SpellingPoints, reasons |-> Append(acc.reasons, TagSpelling)]
    ELSE acc

AddSpelling(acc, currentName, otherName) ==
    IF getSoundSimilarity(currentName.name, otherName.name)
    THEN IF ~isFalseCognate(currentName, otherName) \/ acc.score > 0
         THEN Push(acc, TagSpelling, SpellingPoints)
         ELSE acc
    ELSE acc

AddOrigin(acc, currentName, otherName) ==
    LET originScore == getHierarchicalOriginSimilarity(currentName.origin, otherName.origin)
    IN  IF originScore > 0 THEN Push(acc, TagOrigin, originScore) ELSE acc

\* called only when the length test of the feelings scorer does not throw
AddFeelings(acc, currentName, otherName) ==
    IF getFeelingsSimilarity(ListOf(currentName.feelings), ListOf(otherName.feelings))
    THEN Push(acc, TagFeeling, FeelingPoints)
    ELSE acc

\* the callback raises a TypeError: meanings or feelings is undefined where
\* its length is read
CompareThrows(currentName, otherName) ==
    IF LengthTestThrows(currentName.meanings, otherName.meanings) THEN TRUE
    ELSE LengthTestThrows(currentName.feelings, otherName.feelings)

\* score and reasons after the eight steps, in the order of the code
Accumulate(currentName, otherName) ==
    AddFeelings(
    AddOrigin(
    AddSpelling(
    AddMeaning(
    AddCategory(
    AddEtymology(
    AddPronunciation(
    AddRoots([score |-> 0, reasons |-> <<>>], currentName, otherName),
        currentName, otherName),
        currentName, otherName),
        currentName, otherName),
        currentName, otherName),
        currentName, otherName),
        currentName, otherName),
        currentName, otherName)

\* variant of MeetsThreshold: the score must exceed the threshold
MeetsThresholdStrict(acc, limit) == Len(acc.reasons) > 0 /\ acc.score > limit

\* the final decision: `reasons.length > 0 && score >= threshold`
MeetsThreshold(acc, limit) == Len(acc.reasons) > 0 /\ acc.score >= limit

\* `similar` after the callback has scored otherName
\* `similar.push({name: otherName, reason: reasons.join(', '), score})` when
\* the decision accepts
PushScored(list, otherName, acc, limit) ==
    IF MeetsThreshold(acc, limit)
    THEN Append(list, [name |-> otherName,
                       reason |-> join(acc.reasons, ReasonSeparator),
                       score |-> acc.score])
    ELSE list

PushIfSimilar(list, currentName, otherName, limit) ==
    PushScored(list, otherName, Accumulate(currentName, otherName), limit)

----------------------------------------------------------------------------
(* The final sort *)

Digits == <<"0","1","2","3","4","5","6","7","8","9">>
DigitSet == {Digits[i] : i \in 1..10}
DigitValue == [c \in DigitSet |-> (CHOOSE i \in 1..10 : Digits[i] = c) - 1]
LetterRank == [c \in {LowerChars[i] : i \in 1..26} |->
                  CHOOSE i \in 1..26 : LowerChars[i] = c]

\* the collation elements of a string of letters and digits under
\* {sensitivity: 'base', numeric: true}: a maximal run of digits is one
\* element ordered by its value, before every letter; a letter is ordered by
\* its place in the alphabet, whatever its case.  An element is <<0, value>>
\* for a number and <<1, rank>> for a letter.
RECURSIVE CollationElements(_, _, _)
CollationElements(s, inNumber, value) ==
    IF s = <<>> THEN (IF inNumber THEN << <<0, value>> >> ELSE <<>>)
    ELSE IF Head(s) \in DigitSet
         THEN CollationElements(Tail(s), TRUE,
                                (IF inNumber THEN 10 * value ELSE 0) + DigitValue[Head(s)])
         ELSE (IF inNumber THEN << <<0, value>> >> ELSE <<>>)
              \o << <<1, LetterRank[ToLowerChar(Head(s))]>> >>
              \o CollationElements(Tail(s), FALSE, 0)

RECURSIVE CompareElements(_, _)
CompareElements(k1, k2) ==
    IF k1 = <<>> /\ k2 = <<>> THEN 0
    ELSE IF k1 = <<>> THEN -1
    ELSE IF k2 = <<>> THEN 1
    ELSE IF Head(k1)[1] # Head(k2)[1] THEN (IF Head(k1)[1] < Head(k2)[1] THEN -1 ELSE 1)
    ELSE IF Head(k1)[2] # Head(k2)[2] THEN (IF Head(k1)[2] < Head(k2)[2] THEN -1 ELSE 1)
    ELSE CompareElements(Tail(k1), Tail(k2))

\* aName.localeCompare(bName, undefined, {sensitivity: 'base', numeric: true})
localeCompare(aName, bName) ==
    CompareElements(CollationElements(aName, FALSE, 0), CollationElements(bName, FALSE, 0))

\* variant of SimilarCompare: no tie-break on the name
SimilarCompareScoreOnly(a, b) == b.score - a.score

\* the comparator given to sort
SimilarCompare(a, b) ==
    IF b.score # a.score THEN b.score - a.score
    ELSE localeCompare(toLowerCase(a.name.name), toLowerCase(b.name.name))

\* Array.prototype.sort is stable: an element goes after every element that
\* does not compare greater than it
RECURSIVE InsertSorted(_, _)
InsertSorted(sorted, x) ==
    IF sorted = <<>> THEN <<x>>
    ELSE IF SimilarCompare(Head(sorted), x) <= 0
         THEN <<Head(sorted)>> \o InsertSorted(Tail(sorted), x)
         ELSE <<x>> \o sorted

RECURSIVE SortFrom(_, _, _)
SortFrom(list, i, sorted) ==
    IF i > Len(list) THEN sorted
    ELSE SortFrom(list, i + 1, InsertSorted(sorted, list[i]))

SortSimilar(list) == SortFrom(list, 1, <<>>)

----------------------------------------------------------------------------
(* findSimilarNames as a function of its arguments *)

\* the callback of forEach on otherName: `similar` after it
VisitOne(list, currentName, otherName, limit) ==
    IF otherName.id = currentName.id THEN list
    ELSE IF IsDeclaredRelation(currentName, otherName) THEN list
    ELSE PushIfSimilar(list, currentName, otherName, limit)

RECURSIVE ScanFrom(_, _, _, _, _)
ScanFrom(list, currentName, corpus, i, limit) ==
    IF i > Len(corpus) THEN list
    ELSE ScanFrom(VisitOne(list, currentName, corpus[i], limit),
                  currentName, corpus, i + 1, limit)

\* the list a call returns, for a call in which no callback throws
findSimilarNames(currentName, corpus, limit) ==
    SortSimilar(ScanFrom(<<>>, currentName, corpus, 1, limit))

----------------------------------------------------------------------------
(* The names findSimilarNames is run on *)

\* a Name with no optional field but the two lists the type requires
Blank(id, nm) ==
    [id |-> id, name |-> nm,
     meanings |-> Some(<<>>), meaning |-> None, etymology |-> None,
     pronunciation |-> None, origin |-> None, feelings |-> Some(<<>>),
     roots |-> None, relatedNames |-> None]

\* "Greek: philos (love)"
RootPhilos == <<"G","r","e","e","k",":"," ","p","h","i","l","o","s"," ","(","l","o","v","e",")">>
\* "Hebrew: sarah (princess)"
RootSarah == <<"H","e","b","r","e","w",":"," ","s","a","r","a","h"," ","(","p","r","i","n","c","e","s","s",")">>
\* "hebrew: sarah (lady)"
RootSarahLady == <<"h","e","b","r","e","w",":"," ","s","a","r","a","h"," ","(","l","a","d","y",")">>

Philip == [Blank("philip", <<"P","h","i","l","i","p">>) EXCEPT !.roots = Some(<<RootPhilos>>)]

Philomena == [Blank("philomena", <<"P","h","i","l","o","m","e","n","a">>) EXCEPT !.roots = Some(<<RootPhilos>>)]

\* pronunciation "SAR-a", etymology "from hebrew sarah", meaning "princess",
\* category "Title > Royal", origin "Asia > Hebrew", feeling "warm"
Sara ==
    [Blank("sara", <<"S","a","r","a">>) EXCEPT
        !.roots = Some(<<RootSarah>>),
        !.pronunciation = Some(<<"S","A","R","-","a">>),
        !.etymology = Some(<<"f","r","o","m"," ","h","e","b","r","e","w"," ","s","a","r","a","h">>),
        !.meaning = Some(<<"p","r","i","n","c","e","s","s">>),
        !.meanings = Some(<< <<"T","i","t","l","e"," ",">"," ","R","o","y","a","l">> >>),
        !.origin = Some(<< <<"A","s","i","a"," ",">"," ","H","e","b","r","e","w">> >>),
        !.feelings = Some(<< <<"w","a","r","m">> >>)]

\* pronunciation "/ZAR-a/", etymology "from arabic zahra hebrew", meaning
\* "Princess bright", category "Title > Royal > Queen", origin "Asia > Arabic",
\* feeling "Warmth"
Zara ==
    [Blank("zara", <<"Z","a","r","a">>) EXCEPT
        !.roots = Some(<<RootSarahLady>>),
        !.pronunciation = Some(<<"/","Z","A","R","-","a","/">>),
        !.etymology = Some(<<"f","r","o","m"," ","a","r","a","b","i","c"," ","z","a","h","r","a"," ","h","e","b","r","e","w">>),
        !.meaning = Some(<<"P","r","i","n","c","e","s","s"," ","b","r","i","g","h","t">>),
        !.meanings = Some(<< <<"T","i","t","l","e"," ",">"," ","R","o","y","a","l"," ",">"," ","Q","u","e","e","n">> >>),
        !.origin = Some(<< <<"A","s","i","a"," ",">"," ","A","r","a","b","i","c">> >>),
        !.feelings = Some(<< <<"W","a","r","m","t","h">> >>)]

\* declared an alternate spelling of Sara
Sarah ==
    [Blank("sarah", <<"S","a","r","a","h">>) EXCEPT
        !.roots = Some(<<RootSarah>>),
        !.pronunciation = Some(<<"S","A","R","-","a">>),
        !.relatedNames = Some(<<[type |-> "alternateSpelling", name |-> <<"S","a","r","a">>]>>)]

KimKorean == [Blank("kim1", <<"K","i","m">>) EXCEPT !.origin = Some(<< <<"K","o","r","e","a","n">> >>)]

KimGermanic == [Blank("kim2", <<"K","I","M">>) EXCEPT !.origin = Some(<< <<"G","e","r","m","a","n","i","c">> >>)]

\* category "Nature > Elemental > Water"
River == [Blank("river", <<"R","i","v","e","r">>) EXCEPT !.meanings = Some(<< <<"N","a","t","u","r","e"," ",">"," ","E","l","e","m","e","n","t","a","l"," ",">"," ","W","a","t","e","r">> >>)]

\* category "Nature > Botanical > Flowers"
Rose == [Blank("rose", <<"R","o","s","e">>) EXCEPT !.meanings = Some(<< <<"N","a","t","u","r","e"," ",">"," ","B","o","t","a","n","i","c","a","l"," ",">"," ","F","l","o","w","e","r","s">> >>)]

\* meaning "moon", origins "Korean" and "Germanic"
Luna ==
    [Blank("luna", <<"L","u","n","a">>) EXCEPT
        !.meaning = Some(<<"m","o","o","n">>),
        !.origin = Some(<< <<"K","o","r","e","a","n">>, <<"G","e","r","m","a","n","i","c">> >>)]

\* meaning "Moon "
Al2 == [Blank("al2", <<"A","l","2">>) EXCEPT !.meaning = Some(<<"M","o","o","n"," ">>)]

Al10 == [Blank("al10", <<"A","l","1","0">>) EXCEPT !.meaning = Some(<<"m","o","o","n">>)]

\* a stored record that lacks every optional field, meanings and feelings too
Eve ==
    [Blank("eve", <<"E","v","e">>) EXCEPT !.meanings = None, !.feelings = None]

NamePool == {Philip, Philomena, Sara, Zara, Sarah, KimKorean, KimGermanic,
             River, Rose, Luna, Al2, Al10, Eve}

Thresholds == {0, 1, 60, 61}

MaxCorpus == 2

\* the lists of at most n names of the pool, no name twice
RECURSIVE CorporaOfLength(_)
CorporaOfLength(n) ==
    IF n = 0 THEN {<<>>}
    ELSE {Append(c, x) : <<c, x>> \in
             {<<c, x>> \in CorporaOfLength(n - 1) \X NamePool :
                 \A i \in 1..Len(c) : c[i] # x}}

Corpora == UNION {CorporaOfLength(n) : n \in 0..MaxCorpus}

----------------------------------------------------------------------------
(* phoneticUtils: pronunciationsRhyme *)

\* normalizePronunciation: lower case, white space removed
normalizePronunciation(text) == removeChars(toLowerCase(text), {" "})

\* getLastSyllable: the last element of text.split('-')
getLastSyllable(text) == split(text, <<"-">>)[Len(split(text, <<"-">>))]

\* the character class [aeiouy] with the flag i
Vowels == {"a", "e", "i", "o", "u", "y", "A", "E", "I", "O", "U", "Y"}

\* String.prototype.search(/[aeiouy]/i), 1-based; 0 when nothing matches
FirstVowelIndex(syllable) ==
    IF \E i \in 1..Len(syllable) : syllable[i] \in Vowels
    THEN SetMin({i \in 1..Len(syllable) : syllable[i] \in Vowels})
    ELSE 0

\* getRhymePart
getRhymePart(syllable) ==
    IF FirstVowelIndex(syllable) = 0
    THEN [onset |-> <<>>, rhyme |-> syllable]
    ELSE [onset |-> SubSeq(syllable, 1, FirstVowelIndex(syllable) - 1),
          rhyme |-> SubSeq(syllable, FirstVowelIndex(syllable), Len(syllable))]

\* the minimum length of a last syllable and of a rhyme part
MinRhymeLength == 2

\* variant of RhymeOfParts: a rhyme part of any length will do
RhymeOfPartsAnyLength(parts1, parts2) ==
    /\ parts1.rhyme = parts2.rhyme
    /\ parts1.onset # parts2.onset

\* rhymePartsMatch && onsetsAreDifferent && rhymeIsSubstantial
RhymeOfParts(parts1, parts2) ==
    /\ parts1.rhyme = parts2.rhyme
    /\ parts1.onset # parts2.onset
    /\ Len(parts1.rhyme) >= MinRhymeLength

\* the part of pronunciationsRhyme after the two normalizations
RhymeOfNormalized(normalized1, normalized2) ==
    IF normalized1 = normalized2 THEN FALSE
    ELSE IF \/ Len(getLastSyllable(normalized1)) < MinRhymeLength
            \/ Len(getLastSyllable(normalized2)) < MinRhymeLength THEN FALSE
    ELSE RhymeOfParts(getRhymePart(getLastSyllable(normalized1)),
                      getRhymePart(getLastSyllable(normalized2)))

\* pronunciationsRhyme; an absent or empty pronunciation is falsy
pronunciationsRhyme(pronunciation1, pronunciation2) ==
    IF ~IsSome(pronunciation1) \/ ~IsSome(pronunciation2) THEN FALSE
    ELSE IF Val(pronunciation1) = <<>> \/ Val(pronunciation2) = <<>> THEN FALSE
    ELSE RhymeOfNormalized(normalizePronunciation(Val(pronunciation1)),
                           normalizePronunciation(Val(pronunciation2)))

\* the characters of the generated pronunciations
PronunciationChars == {"K", "n", "a", "-"}

MaxPronunciation == 3

RECURSIVE StringsOfLength(_, _)
StringsOfLength(chars, n) ==
    IF n = 0 THEN {<<>>}
    ELSE {Append(t, c) : t \in StringsOfLength(chars, n - 1), c \in chars}

\* "KATE", "NATE", "K ATE", "a-KATE", "ROZE", "LIL-ee", "ih-LIZ-uh-beth", "SETH", "pst", "kay-"
WrittenPronunciations ==
    {<<"K","A","T","E">>,
     <<"N","A","T","E">>,
     <<"K"," ","A","T","E">>,
     <<"a","-","K","A","T","E">>,
     <<"R","O","Z","E">>,
     <<"L","I","L","-","e","e">>,
     <<"i","h","-","L","I","Z","-","u","h","-","b","e","t","h">>,
     <<"S","E","T","H">>,
     <<"p","s","t">>,
     <<"k","a","y","-">>}

Pronunciations ==
    {None}
    \cup {Some(t) : t \in UNION {StringsOfLength(PronunciationChars, n) : n \in 0..MaxPronunciation}}
    \cup {Some(t) : t \in WrittenPronunciations}

----------------------------------------------------------------------------
(* Taxonomy filters of the library page and of the name generator *)

\* String.prototype.startsWith
startsWith(s, prefix) ==
    /\ Len(prefix) <= Len(s)
    /\ SubSeq(s, 1, Len(prefix)) = prefix

\* `x || []` for an optional list
OrEmpty(o) == IF IsSome(o) THEN Val(o) ELSE <<>>

\* variant of MatchesSelected: any string prefix matches
MatchesSelectedAnyPrefix(path, selector) ==
    path = selector \/ startsWith(path, selector)

\* `path === selected || path.startsWith(selected + ' > ')`
MatchesSelected(path, selector) ==
    path = selector \/ startsWith(path, selector \o PathSep)

\* some path of the list matches the selector
SomeMatches(paths, selector) ==
    \E i \in 1..Len(paths) : MatchesSelected(paths[i], selector)

\* selectedOrigins without the entries that have a descendant in the list
mostSpecificOrigins(selectedOrigins) ==
    LET HasDescendant(origin) ==
            \E j \in 1..Len(selectedOrigins) :
                /\ selectedOrigins[j] # origin
                /\ startsWith(selectedOrigins[j], origin \o PathSep)
        Keep(origin) == ~HasDescendant(origin)
    IN  SelectSeq(selectedOrigins, Keep)

\* some origin of the name matches some of the most specific selections
SomeOriginMatches(origin, specific) ==
    \E j \in 1..Len(specific) : SomeMatches(OrEmpty(origin), specific[j])

\* library page: matchesOrigin
matchesOrigin(origin, selectedOrigins) ==
    \/ Len(mostSpecificOrigins(selectedOrigins)) = 0
    \/ SomeOriginMatches(origin, mostSpecificOrigins(selectedOrigins))

\* the value "all" of a level select
AllFilter == <<"a","l","l">>

AllLevels == <<AllFilter, AllFilter, AllFilter>>

\* library page: matchesMeaning
matchesMeaning(meanings, meaningFilter) ==
    \/ meaningFilter = AllFilter
    \/ SomeMatches(OrEmpty(meanings), meaningFilter)

\* library page: matchesSubcategory
matchesSubcategory(meanings, meaningFilter, subcategoryFilter) ==
    \/ subcategoryFilter = AllFilter
    \/ SomeMatches(OrEmpty(meanings), meaningFilter \o PathSep \o subcategoryFilter)

\* library page: matchesSubsubcategory
matchesSubsubcategory(meanings, meaningFilter, subcategoryFilter, subsubcategoryFilter) ==
    \/ subsubcategoryFilter = AllFilter
    \/ SomeMatches(OrEmpty(meanings),
                   meaningFilter \o PathSep \o subcategoryFilter \o PathSep \o subsubcategoryFilter)

\* name generator: the name stays in `filtered` after the origin filter
generatorOriginFilter(origin, selectedOrigins) ==
    IF Len(mostSpecificOrigins(selectedOrigins)) > 0
    THEN SomeOriginMatches(origin, mostSpecificOrigins(selectedOrigins))
    ELSE TRUE

\* name generator: the name stays in `filtered` after the category filter;
\* `n.meanings?.some(...)` is undefined, hence false, without meanings
generatorCategoryFilter(meanings, selectedCategories, categoryLogic) ==
    IF Len(selectedCategories) > 0
    THEN IF categoryLogic = "and"
         THEN \A j \in 1..Len(selectedCategories) :
                  IsSome(meanings) /\ SomeMatches(Val(meanings), selectedCategories[j])
         ELSE \E j \in 1..Len(selectedCategories) :
                  IsSome(meanings) /\ SomeMatches(Val(meanings), selectedCategories[j])
    ELSE TRUE

IdleFilter ==
    /\ namePaths = <<>>
    /\ selected = <<>>
    /\ levels = AllLevels
    /\ filterKind = "idle"
    /\ passes = FALSE

----------------------------------------------------------------------------
(* Taxonomy filters: the inputs *)

\* "A", "AB", "B", "A > B", "A > AB", "AB > A", "A > B > A", "A > B > AB"
FilterPaths ==
    {<<"A">>,
     <<"A","B">>,
     <<"B">>,
     <<"A"," ",">"," ","B">>,
     <<"A"," ",">"," ","A","B">>,
     <<"A","B"," ",">"," ","A">>,
     <<"A"," ",">"," ","B"," ",">"," ","A">>,
     <<"A"," ",">"," ","B"," ",">"," ","A","B">>}

\* the values a level select can hold
LevelChoices == {AllFilter, <<"A">>, <<"A","B">>, <<"B">>}

MaxSelected == 2

RECURSIVE SelectionsOfLength(_)
SelectionsOfLength(n) ==
    IF n = 0 THEN {<<>>}
    ELSE {Append(l, x) : l \in SelectionsOfLength(n - 1), x \in FilterPaths}

Selections == UNION {SelectionsOfLength(n) : n \in 0..MaxSelected}

\* the paths of the name filtered: absent, or a list of at most two paths
NamePathLists ==
    {None} \cup {Some(l) : l \in SelectionsOfLength(0) \cup SelectionsOfLength(1) \cup SelectionsOfLength(2)}

----------------------------------------------------------------------------
(* useNameStorage: the saved list of names.  An entry is a record with the  *)
(* fields id, name and relatedNames (optional); the other fields of a Name  *)
(* play no part in a merge without resolutions.                             *)

\* the comparator of saveNames; the names stored here hold letters only, for
\* which the default collation and the numeric one agree
StoredCompare(a, b) == localeCompare(toLowerCase(a.name), toLowerCase(b.name))

RECURSIVE InsertByName(_, _)
InsertByName(sorted, x) ==
    IF sorted = <<>> THEN <<x>>
    ELSE IF StoredCompare(Head(sorted), x) <= 0
         THEN <<Head(sorted)>> \o InsertByName(Tail(sorted), x)
         ELSE <<x>> \o sorted

RECURSIVE SortByNameFrom(_, _, _)
SortByNameFrom(list, i, sorted) ==
    IF i > Len(list) THEN sorted
    ELSE SortByNameFrom(list, i + 1, InsertByName(sorted, list[i]))

\* variant of saveNames: the list is saved as it is
saveNamesUnsorted(newNames) == newNames

\* saveNames: the sorted copy that goes to setNames and to localStorage
saveNames(newNames) == SortByNameFrom(newNames, 1, <<>>)

\* names.find(n => n.id === id): the index of the entry, 0 when there is none
FindById(list, id) ==
    IF \E i \in 1..Len(list) : list[i].id = id
    THEN SetMin({i \in 1..Len(list) : list[i].id = id})
    ELSE 0

\* self.findIndex(r => r.name === related.name)
FindIndexByName(list, nm) == SetMin({i \in 1..Len(list) : list[i].name = nm})

\* uniqueRelatedNames: the first entry of every name is kept
UniqueByName(list) ==
    LET positions == {i \in 1..Len(list) : i = FindIndexByName(list, list[i].name)}
        Nth(k) == CHOOSE i \in positions : Cardinality({h \in positions : h < i}) = k - 1
    IN  [k \in 1..Cardinality(positions) |-> list[Nth(k)]]

\* `merged` of mergeNameEntries without resolutions
MergedEntry(primaryName, mergeName) ==
    [id |-> primaryName.id,
     name |-> primaryName.name,
     relatedNames |-> Some(UniqueByName(OrEmpty(primaryName.relatedNames)
                                        \o OrEmpty(mergeName.relatedNames)
                                        \o <<[type |-> "alternateSpelling", name |-> mergeName.name]>>))]

\* the object updateName builds for the entry n from `updates`
\* { ...n, ...updates, relatedNames: updates.relatedNames !== undefined ? ... }
UpdatedEntry(n, updates) ==
    [k \in DOMAIN n \cup DOMAIN updates |->
        IF k \in DOMAIN updates /\ (k # "relatedNames" \/ IsSome(updates[k]))
        THEN updates[k]
        ELSE n[k]]

\* updateName(id, updates) run with the list `names` of its render: the list saved
updateName(list, id, updates) ==
    saveNames([i \in 1..Len(list) |->
                  IF list[i].id = id THEN UpdatedEntry(list[i], updates) ELSE list[i]])

\* deleteName(id) run with the list `names` of its render: the list saved
deleteName(list, id) ==
    LET Other(n) == n.id # id
    IN  saveNames(SelectSeq(list, Other))

\* the lists saved by mergeNameEntries, in order: updateName and deleteName
\* both read the `names` of the render in which mergeNameEntries was created
MergeSaves(list, primaryId, mergeId) ==
    << updateName(list, primaryId,
                  MergedEntry(list[FindById(list, primaryId)], list[FindById(list, mergeId)])),
       deleteName(list, mergeId) >>

\* addName(name) run with the list `names` of its render: the list saved
addName(list, newName) == saveNames(Append(list, newName))

\* bulkUpdateNames(updatedNames): the list saved
bulkUpdateNames(list, updatedNames) ==
    saveNames([i \in 1..Len(list) |->
                  IF FindById(updatedNames, list[i].id) # 0
                  THEN updatedNames[FindById(updatedNames, list[i].id)]
                  ELSE list[i]])

\* { ...n, status, usedIn: payload?.usedIn, blockedReason: payload?.blockedReason }
WithStatus(n, status, usedIn, blockedReason) ==
    [k \in DOMAIN n \cup {"status", "usedIn", "blockedReason"} |->
        CASE k = "status" -> status
          [] k = "usedIn" -> usedIn
          [] k = "blockedReason" -> blockedReason
          [] OTHER -> n[k]]

\* setStatus(id, status, payload): the list saved
setStatus(list, id, status, usedIn, blockedReason) ==
    saveNames([i \in 1..Len(list) |->
                  IF list[i].id = id THEN WithStatus(list[i], status, usedIn, blockedReason)
                  ELSE list[i]])

\* target.status === 'used'
IsUsed(n) == "status" \in DOMAIN n /\ n.status = "used"

\* toggleUsed(id, usedIn) with the entry found: the list saved
toggleUsed(list, id, usedIn) ==
    IF IsUsed(list[FindById(list, id)])
    THEN setStatus(list, id, "available", None, None)
    ELSE setStatus(list, id, "used", usedIn, None)

\* importNames(imported, {mode}): the list saved; `parsed` is the imported
\* array with its fields normalised
importNames(list, parsed, mode) ==
    IF mode = "merge"
    THEN LET New(q) == FindById(list, q.id) = 0
         IN  saveNames(list \o SelectSeq(parsed, New))
    ELSE saveNames(parsed)

\* deleteName(id, variantSpelling): the related names left to the entry
WithoutVariant(n, variantSpelling) ==
    LET Other(r) == r.name # variantSpelling
    IN  [relatedNames |-> Some(SelectSeq(Val(n.relatedNames), Other))]

IdleStore ==
    /\ names = <<>>
    /\ stored = <<>>
    /\ lastMerge = None

\* nothing queued, nothing in flight
IdleSync ==
    /\ pending = <<>>
    /\ server = None
    /\ flights = {}
    /\ healed = FALSE
    /\ saveCount = 0

----------------------------------------------------------------------------
(* useNameStorage: the inputs *)

StoredIds == {"a", "b", "c"}

\* the name of each entry: "Sarah", "Sara", "Zara"
StoredNameOf ==
    [id \in StoredIds |->
        CASE id = "a" -> <<"S","a","r","a","h">>
          [] id = "b" -> <<"S","a","r","a">>
          [] id = "c" -> <<"Z","a","r","a">>]

\* the related names an entry may declare: none, or one of "Sally", "Sara", "Zara"
RelatedChoices ==
    {None}
    \cup {Some(<<[type |-> "diminutive", name |-> nm]>>) : nm \in {<<"S","a","l","l","y">>, <<"S","a","r","a">>}}
    \cup {Some(<<[type |-> "variant", name |-> <<"Z","a","r","a">>]>>)}

\* an entry of each id, or none: the value <<>> stands for no entry
EntryChoices(id) ==
    {<<>>} \cup {<<[id |-> id, name |-> StoredNameOf[id], relatedNames |-> r]>> : r \in RelatedChoices}

\* the lists a session starts from: sorted by saveNames, one entry per id at most
StoredLists ==
    {saveNames(ea \o eb \o ec) :
        ea \in EntryChoices("a"), eb \in EntryChoices("b"), ec \in {<<>>, <<[id |-> "c", name |-> StoredNameOf["c"], relatedNames |-> None]>>}}

----------------------------------------------------------------------------
(* Classification of one pair of paths: the inputs *)

MaxDepth == 3

Segments == { <<"A">>, <<"B">>, <<"B", " ">> }

RECURSIVE SegLists(_)
SegLists(n) ==
    IF n = 0 THEN {<<>>}
    ELSE {Append(l, s) : l \in SegLists(n - 1), s \in Segments}

Paths == UNION { {join(l, PathSep) : l \in SegLists(n)} : n \in 1..MaxDepth }

----------------------------------------------------------------------------
(* Specification SpecPair: one pair of paths is classified, by the category *)
(* scorer or by the origin scorer, each called on two one-element lists.    *)

IdleMain ==
    /\ name = <<>>
    /\ allNames = <<>>
    /\ threshold = 0
    /\ similar = <<>>
    /\ idx = 0
    /\ pc = "idle"

IdlePair ==
    /\ p1 = <<>>
    /\ p2 = <<>>
    /\ pairKind = "idle"
    /\ pairScore = 0

InitPair ==
    /\ p1 \in Paths
    /\ p2 \in Paths
    /\ pairKind = "none"
    /\ pairScore = 0
    /\ IdleMain
    /\ IdleFilter
    /\ IdleStore
    /\ IdleSync

ClassifyCategoryPair ==
    /\ pairKind = "none"
    /\ pairKind' = "category"
    /\ pairScore' = getHierarchicalCategorySimilarity(<<p1>>, <<p2>>)
    /\ UNCHANGED <<name, allNames, threshold, similar, idx, pc, p1, p2>>
    /\ UNCHANGED auxVars

ClassifyOriginPair ==
    /\ pairKind = "none"
    /\ pairKind' = "origin"
    /\ pairScore' = getHierarchicalOriginSimilarity(Some(<<p1>>), Some(<<p2>>))
    /\ UNCHANGED <<name, allNames, threshold, similar, idx, pc, p1, p2>>
    /\ UNCHANGED auxVars

NextPair == ClassifyCategoryPair \/ ClassifyOriginPair

SpecPair == InitPair /\ [][NextPair]_vars

----------------------------------------------------------------------------
(* Specification SpecRoots: checkSharedRoots is called on two lists of one   *)
(* root each.                                                               *)

\* "de", "De", "la"
RootIdentifiers == {<<"d","e">>, <<"D","e">>, <<"l","a">>}

\* "the", "'the'", "the one", "of"
RootExplanations == {<<"t","h","e">>, <<"'","t","h","e","'">>, <<"t","h","e"," ","o","n","e">>, <<"o","f">>}

\* `identifier (explanation)`, or the identifier alone
RootText(identifier, explanation) ==
    IF IsSome(explanation)
    THEN identifier \o <<" ", "(">> \o Val(explanation) \o <<")">>
    ELSE identifier

RootTexts ==
    {RootText(i, e) : i \in RootIdentifiers,
                      e \in {None} \cup {Some(x) : x \in RootExplanations}}

InitRoots ==
    /\ p1 \in RootTexts
    /\ p2 \in RootTexts
    /\ pairKind = "none"
    /\ pairScore = 0
    /\ IdleMain
    /\ IdleFilter
    /\ IdleStore
    /\ IdleSync

CompareRoots ==
    /\ pairKind = "none"
    /\ pairKind' = "roots"
    /\ pairScore' = checkSharedRoots(<<p1>>, <<p2>>)
    /\ UNCHANGED <<name, allNames, threshold, similar, idx, pc, p1, p2>>
    /\ UNCHANGED auxVars

NextRoots == CompareRoots

SpecRoots == InitRoots /\ [][NextRoots]_vars

----------------------------------------------------------------------------
(* Specification SpecRootLists: checkSharedRoots is called on two lists of   *)
(* compound roots.                                                          *)

\* "de (the)", "de (the one)", "la"
RootElements == {<<"d","e"," ","(","t","h","e",")">>, <<"d","e"," ","(","t","h","e"," ","o","n","e",")">>, <<"l","a">>}

MaxElements == 3

RECURSIVE ElementListsOfLength(_)
ElementListsOfLength(n) ==
    IF n = 0 THEN {<<>>}
    ELSE {Append(t, e) : t \in ElementListsOfLength(n - 1), e \in RootElements}

\* the roots of n elements joined by " + "
CompoundRoots(n) == {join(l, <<" ", "+", " ">>) : l \in ElementListsOfLength(n)}

\* "la ", "De (the)/la", "de (of)", "de (of) + la", "de (of) + de (the) + mi + la"
WrittenRoots ==
    {<<"l","a"," ">>, <<"D","e"," ","(","t","h","e",")","/","l","a">>, <<"d","e"," ","(","o","f",")">>,
     <<"d","e"," ","(","o","f",")"," ","+"," ","l","a">>,
     <<"d","e"," ","(","o","f",")"," ","+"," ","d","e"," ","(","t","h","e",")"," ","+"," ","m","i"," ","+"," ","l","a">>}

\* lists of one root of up to MaxElements elements or one written root, and
\* lists of a root of one element followed by a root of two
RootLists ==
    {<<r>> : r \in UNION {CompoundRoots(n) : n \in 1..MaxElements} \cup WrittenRoots}
    \cup {<<r, t>> : r \in CompoundRoots(1), t \in CompoundRoots(2)}

InitRootLists ==
    /\ p1 \in RootLists
    /\ p2 \in RootLists
    /\ pairKind = "none"
    /\ pairScore = 0
    /\ IdleMain
    /\ IdleFilter
    /\ IdleStore
    /\ IdleSync

CompareRootLists ==
    /\ pairKind = "none"
    /\ pairKind' = "rootLists"
    /\ pairScore' = checkSharedRoots(p1, p2)
    /\ UNCHANGED <<name, allNames, threshold, similar, idx, pc, p1, p2>>
    /\ UNCHANGED auxVars

NextRootLists == CompareRootLists

SpecRootLists == InitRootLists /\ [][NextRootLists]_vars

----------------------------------------------------------------------------
(* Specification SpecRhyme: pronunciationsRhyme is called on two            *)
(* pronunciations.                                                          *)

InitRhyme ==
    /\ p1 \in Pronunciations
    /\ p2 \in Pronunciations
    /\ pairKind = "none"
    /\ pairScore = 0
    /\ IdleMain
    /\ IdleFilter
    /\ IdleStore
    /\ IdleSync

Rhyme ==
    /\ pairKind = "none"
    /\ pairKind' = "rhyme"
    /\ pairScore' = pronunciationsRhyme(p1, p2)
    /\ UNCHANGED <<name, allNames, threshold, similar, idx, pc, p1, p2>>
    /\ UNCHANGED auxVars

NextRhyme == Rhyme

SpecRhyme == InitRhyme /\ [][NextRhyme]_vars

----------------------------------------------------------------------------
(* Specification SpecDistance: levenshteinDistance is called on two words.  *)

WordChars == {"a", "b"}

MaxWord == 3

\* every word of at most MaxWord characters
ShortWords == UNION {StringsOfLength(WordChars, n) : n \in 0..MaxWord}

\* "kitten", "sitting"
WrittenWords == {<<"k","i","t","t","e","n">>, <<"s","i","t","t","i","n","g">>}

Words == ShortWords \cup WrittenWords

InitDistance ==
    /\ p1 \in Words
    /\ p2 \in Words
    /\ pairKind = "none"
    /\ pairScore = 0
    /\ IdleMain
    /\ IdleFilter
    /\ IdleStore
    /\ IdleSync

Distance ==
    /\ pairKind = "none"
    /\ pairKind' = "distance"
    /\ pairScore' = levenshteinDistance(p1, p2)
    /\ UNCHANGED <<name, allNames, threshold, similar, idx, pc, p1, p2>>
    /\ UNCHANGED auxVars

NextDistance == Distance

SpecDistance == InitDistance /\ [][NextDistance]_vars

----------------------------------------------------------------------------
(* Specification SpecFilter: one name goes through one taxonomy filter of   *)
(* the library page or of the name generator, the other filters inactive.   *)

InitFilter ==
    /\ namePaths \in NamePathLists
    /\ selected = <<>>
    /\ levels = AllLevels
    /\ filterKind = "none"
    /\ passes = FALSE
    /\ IdleMain
    /\ IdlePair
    /\ IdleStore
    /\ IdleSync

PageOrigins ==
    /\ filterKind = "none"
    /\ \E sel \in Selections :
          /\ selected' = sel
          /\ passes' = matchesOrigin(namePaths, sel)
    /\ filterKind' = "pageOrigins"
    /\ UNCHANGED <<namePaths, levels, mainVars, pairVars, storeVars, syncVars>>

PageCategories ==
    /\ filterKind = "none"
    /\ \E m \in LevelChoices, sub \in LevelChoices, subsub \in LevelChoices :
          /\ levels' = <<m, sub, subsub>>
          /\ passes' = (/\ matchesMeaning(namePaths, m)
                        /\ matchesSubcategory(namePaths, m, sub)
                        /\ matchesSubsubcategory(namePaths, m, sub, subsub))
    /\ filterKind' = "pageCategories"
    /\ UNCHANGED <<namePaths, selected, mainVars, pairVars, storeVars, syncVars>>

GeneratorOrigins ==
    /\ filterKind = "none"
    /\ \E sel \in Selections :
          /\ selected' = sel
          /\ passes' = generatorOriginFilter(namePaths, sel)
    /\ filterKind' = "generatorOrigins"
    /\ UNCHANGED <<namePaths, levels, mainVars, pairVars, storeVars, syncVars>>

GeneratorCategoriesAll ==
    /\ filterKind = "none"
    /\ \E sel \in Selections :
          /\ selected' = sel
          /\ passes' = generatorCategoryFilter(namePaths, sel, "and")
    /\ filterKind' = "generatorCategoriesAll"
    /\ UNCHANGED <<namePaths, levels, mainVars, pairVars, storeVars, syncVars>>

GeneratorCategoriesAny ==
    /\ filterKind = "none"
    /\ \E sel \in Selections :
          /\ selected' = sel
          /\ passes' = generatorCategoryFilter(namePaths, sel, "any")
    /\ filterKind' = "generatorCategoriesAny"
    /\ UNCHANGED <<namePaths, levels, mainVars, pairVars, storeVars, syncVars>>

NextFilter ==
    \/ PageOrigins
    \/ PageCategories
    \/ GeneratorOrigins
    \/ GeneratorCategoriesAll
    \/ GeneratorCategoriesAny

SpecFilter == InitFilter /\ [][NextFilter]_vars

----------------------------------------------------------------------------
(* Specification SpecStore: entries of the saved list are merged and        *)
(* deleted.  A handler runs to its end within one render, and the next      *)
(* render has the list of the last setNames.                                *)

InitStore ==
    /\ names \in StoredLists
    /\ stored = names
    /\ lastMerge = None
    /\ IdleMain
    /\ IdlePair
    /\ IdleFilter
    /\ IdleSync

\* no handler starts once MaxSaves lists were saved
MaxSaves == 1

\* fetch(url, {method: 'POST', body}) of tryPost, before its return
DirectPost(n, sortedNames) ==
    [kind |-> "direct", n |-> n, body |-> sortedNames, queue |-> <<>>, res |-> "sent"]

\* a handler has called saveNames on each list of `saved` in turn: setNames
\* and localStorage.setItem of each, the last one standing, and one POST each
Saved(saved) ==
    /\ saveCount < MaxSaves
    /\ names' = saved[Len(saved)]
    /\ stored' = saved[Len(saved)]
    /\ flights' = flights \cup {DirectPost(saveCount + i, saved[i]) : i \in 1..Len(saved)}
    /\ saveCount' = saveCount + Len(saved)
    /\ UNCHANGED <<pending, server, healed, mainVars, pairVars, filterVars>>

\* mergeNameEntries(primaryId, mergeId), both entries found
MergeNameEntries ==
    \E primaryId \in StoredIds, mergeId \in StoredIds :
        /\ primaryId # mergeId
        /\ FindById(names, primaryId) # 0
        /\ FindById(names, mergeId) # 0
        /\ Saved(MergeSaves(names, primaryId, mergeId))
        /\ lastMerge' = Some([primaryId |-> primaryId, mergeId |-> mergeId, before |-> names])

\* deleteName(id) from the page, and deleteName(id, variantSpelling) for an
\* entry that has related names
DeleteName ==
    /\ \E id \in StoredIds :
          /\ FindById(names, id) # 0
          /\ \/ Saved(<<deleteName(names, id)>>)
             \/ /\ IsSome(names[FindById(names, id)].relatedNames)
                /\ \E r \in 1..Len(Val(names[FindById(names, id)].relatedNames)) :
                      Saved(<<updateName(names, id,
                                WithoutVariant(names[FindById(names, id)],
                                    Val(names[FindById(names, id)].relatedNames)[r].name))>>)
    /\ lastMerge' = None

NextStore == MergeNameEntries \/ DeleteName

SpecStore == InitStore /\ [][NextStore]_vars

----------------------------------------------------------------------------
(* Specification SpecSync: a session of useNameStorage.  The handlers save, *)
(* every save POSTs its list, the server answers in any order, failed saves *)
(* are queued and the interval callback retries the head of the queue.      *)

SyncIds == {"a", "b"}

\* an entry as the page holds it
SyncEntry(id) == [id |-> id, name |-> StoredNameOf[id], relatedNames |-> None]

\* the lists a session may load: empty, one entry, and two entries in the
\* order of a names.json that was never sorted ("Sarah" before "Sara")
LoadedLists == {<<>>, <<SyncEntry("a")>>, <<SyncEntry("a"), SyncEntry("b")>>}

\* the mount effect has run: the list came from the server, or, the server
\* failing, from localStorage; the queue is empty or holds a snapshot that an
\* earlier session saved and could not POST
InitSync ==
    /\ names \in LoadedLists
    /\ stored = names
    /\ lastMerge = None
    /\ server \in {None, Some(names)}
    /\ pending \in {<<>>, <<saveNames(<<SyncEntry("a"), SyncEntry("b")>>)>>}
    /\ flights = {}
    /\ healed = FALSE
    /\ saveCount = 0
    /\ IdleMain
    /\ IdlePair
    /\ IdleFilter

\* addName(name): the new entry gets an id no entry has
AddName ==
    /\ \E id \in SyncIds :
          /\ FindById(names, id) = 0
          /\ Saved(<<addName(names, [SyncEntry(id) EXCEPT !.relatedNames = Some(<<>>)])>>)
    /\ lastMerge' = None

\* updateName("a", {name}) from the edit dialog
UpdateName ==
    /\ FindById(names, "a") # 0
    /\ Saved(<<updateName(names, "a", [name |-> StoredNameOf["c"]])>>)
    /\ lastMerge' = None

\* bulkUpdateNames([entry]) with the entry "a" renamed
BulkUpdateNames ==
    /\ FindById(names, "a") # 0
    /\ Saved(<<bulkUpdateNames(names,
                  <<[names[FindById(names, "a")] EXCEPT !.name = StoredNameOf["b"]]>>)>>)
    /\ lastMerge' = None

\* setStatus("b", 'blocked', {blockedReason})
SetStatus ==
    /\ FindById(names, "b") # 0
    /\ Saved(<<setStatus(names, "b", "blocked", None, Some(<<"x">>))>>)
    /\ lastMerge' = None

\* toggleUsed("b"); it returns at once when the entry is not found
ToggleUsed ==
    /\ FindById(names, "b") # 0
    /\ Saved(<<toggleUsed(names, "b", None)>>)
    /\ lastMerge' = None

\* importNames(imported, {mode}) of the two entries in file order
ImportNames ==
    /\ \E mode \in {"replace", "merge"} :
          Saved(<<importNames(names, <<SyncEntry("a"), SyncEntry("b")>>, mode)>>)
    /\ lastMerge' = None

\* the server takes the body of a POST and answers ok
ServerAccepts ==
    \E f \in flights :
        /\ f.res = "sent"
        /\ server' = Some(f.body)
        /\ flights' = (flights \ {f}) \cup {[f EXCEPT !.res = "ok"]}
        /\ UNCHANGED <<pending, healed, saveCount, mainVars, pairVars, filterVars, storeVars>>

\* a POST fails: network error or a status that is not ok
PostFails ==
    /\ ~healed
    /\ \E f \in flights :
          /\ f.res = "sent"
          /\ flights' = (flights \ {f}) \cup {[f EXCEPT !.res = "fail"]}
    /\ UNCHANGED <<pending, server, healed, saveCount, mainVars, pairVars, filterVars, storeVars>>

\* the server is back for good
ServerRecovers ==
    /\ ~healed
    /\ healed' = TRUE
    /\ UNCHANGED <<pending, server, flights, saveCount, mainVars, pairVars, filterVars, storeVars>>

\* tryPost continues after its await: removeItem of the queue on ok, enqueue
\* of its own sortedNames otherwise
DirectReturns ==
    \E f \in flights :
        /\ f.kind = "direct"
        /\ f.res # "sent"
        /\ pending' = IF f.res = "ok" THEN <<>> ELSE Append(pending, f.body)
        /\ flights' = flights \ {f}
        /\ UNCHANGED <<server, healed, saveCount, mainVars, pairVars, filterVars, storeVars>>

MaxRetries == 1

\* the interval callback up to its await: it reads the queue, returns when
\* the queue is empty, and POSTs the first snapshot
RetryTick ==
    /\ pending # <<>>
    /\ Cardinality({f \in flights : f.kind = "retry"}) < MaxRetries
    /\ flights' = flights \cup {[kind |-> "retry", n |-> 0, body |-> pending[1],
                                   queue |-> pending, res |-> "sent"]}
    /\ UNCHANGED <<pending, server, healed, saveCount, mainVars, pairVars, filterVars, storeVars>>

\* the interval callback after its await: on ok it writes back the array it
\* read, without its first element
RetryReturns ==
    \E f \in flights :
        /\ f.kind = "retry"
        /\ f.res # "sent"
        /\ pending' = IF f.res = "ok" THEN Tail(f.queue) ELSE pending
        /\ flights' = flights \ {f}
        /\ UNCHANGED <<server, healed, saveCount, mainVars, pairVars, filterVars, storeVars>>

NextSync ==
    \/ AddName
    \/ UpdateName
    \/ BulkUpdateNames
    \/ DeleteName
    \/ SetStatus
    \/ ToggleUsed
    \/ ImportNames
    \/ MergeNameEntries
    \/ ServerAccepts
    \/ PostFails
    \/ ServerRecovers
    \/ DirectReturns
    \/ RetryTick
    \/ RetryReturns

SpecSync == InitSync /\ [][NextSync]_vars

\* every request is answered, every answer is handled, the timer keeps
\* ticking, and the server comes back
FairSync ==
    /\ WF_vars(ServerAccepts)
    /\ WF_vars(DirectReturns)
    /\ WF_vars(RetryReturns)
    /\ WF_vars(RetryTick)
    /\ WF_vars(ServerRecovers)

SpecSyncLive == SpecSync /\ FairSync

----------------------------------------------------------------------------
(* Specification SpecCandidate: the callback of findSimilarNames runs on    *)
(* one target and one candidate.                                            *)

\* etymology "latin natalis natalis"
Noel ==
    [Blank("noel", <<"N","o","e","l">>) EXCEPT !.etymology = Some(<<"l","a","t","i","n"," ","n","a","t","a","l","i","s"," ","n","a","t","a","l","i","s">>)]

\* etymology "Latin natalis"
Natalie ==
    [Blank("natalie", <<"N","a","t","a","l","i","e">>) EXCEPT !.etymology = Some(<<"L","a","t","i","n"," ","n","a","t","a","l","i","s">>)]

CandidatePool == NamePool \cup {Noel, Natalie}

InitCandidate ==
    /\ p1 \in CandidatePool
    /\ p2 \in CandidatePool
    /\ pairKind = "none"
    /\ pairScore = 0
    /\ IdleMain
    /\ IdleFilter
    /\ IdleStore
    /\ IdleSync

\* exclusion rules 1 and 2: the callback returns before scoring
SkipCandidate ==
    /\ pairKind = "none"
    /\ (p2.id = p1.id \/ IsDeclaredRelation(p1, p2))
    /\ pairKind' = "skipped"
    /\ UNCHANGED <<name, allNames, threshold, similar, idx, pc, p1, p2, pairScore>>
    /\ UNCHANGED auxVars

\* the callback throws where a length is read
ThrowCandidate ==
    /\ pairKind = "none"
    /\ p2.id # p1.id
    /\ ~IsDeclaredRelation(p1, p2)
    /\ CompareThrows(p1, p2)
    /\ pairKind' = "thrown"
    /\ UNCHANGED <<name, allNames, threshold, similar, idx, pc, p1, p2, pairScore>>
    /\ UNCHANGED auxVars

\* the callback scores the candidate: `score` and `reasons` at its end
ScoreCandidate ==
    /\ pairKind = "none"
    /\ p2.id # p1.id
    /\ ~IsDeclaredRelation(p1, p2)
    /\ ~CompareThrows(p1, p2)
    /\ pairKind' = "scored"
    /\ pairScore' = Accumulate(p1, p2)
    /\ UNCHANGED <<name, allNames, threshold, similar, idx, pc, p1, p2>>
    /\ UNCHANGED auxVars

NextCandidate == SkipCandidate \/ ThrowCandidate \/ ScoreCandidate

SpecCandidate == InitCandidate /\ [][NextCandidate]_vars

----------------------------------------------------------------------------
(* Specification SpecEtymology: getEtymologySimilarity on two optional texts *)

\* "latin", "natalis", "Greek", "from"
EtymologyWords == {<<"l","a","t","i","n">>, <<"n","a","t","a","l","i","s">>, <<"G","r","e","e","k">>, <<"f","r","o","m">>}

MaxEtymologyWords == 3

RECURSIVE WordListsOfLength(_)
WordListsOfLength(n) ==
    IF n = 0 THEN {<<>>}
    ELSE {Append(t, w) : t \in WordListsOfLength(n - 1), w \in EtymologyWords}

\* the texts of up to MaxEtymologyWords words, one space between words, and
\* the absent text
EtymologyTexts ==
    {None} \cup {Some(join(l, <<" ">>)) :
                    l \in UNION {WordListsOfLength(n) : n \in 0..MaxEtymologyWords}}

InitEtymology ==
    /\ p1 \in EtymologyTexts
    /\ p2 \in EtymologyTexts
    /\ pairKind = "none"
    /\ pairScore = 0
    /\ IdleMain
    /\ IdleFilter
    /\ IdleStore
    /\ IdleSync

CompareEtymologies ==
    /\ pairKind = "none"
    /\ pairKind' = "etymology"
    /\ pairScore' = getEtymologySimilarity(p1, p2)
    /\ UNCHANGED <<name, allNames, threshold, similar, idx, pc, p1, p2>>
    /\ UNCHANGED auxVars

NextEtymology == CompareEtymologies

SpecEtymology == InitEtymology /\ [][NextEtymology]_vars

----------------------------------------------------------------------------
(* Specification SpecPronounce: getPronunciationSimilarity on two optional  *)
(* notations.                                                               *)

IpaChars == {"K", "a", "/", " "}

MaxIpa == 3

\* "/keit/", "[KATE]", "kate", "kite", "kat", "nate ", "/ /", "[]", "sara", "zahra", "sahra"
WrittenIpa ==
    {<<"/","k","e","i","t","/">>, <<"[","K","A","T","E","]">>, <<"k","a","t","e">>, <<"k","i","t","e">>, <<"k","a","t">>,
     <<"n","a","t","e"," ">>, <<"/"," ","/">>, <<"[","]">>, <<"s","a","r","a">>, <<"z","a","h","r","a">>,
     <<"s","a","h","r","a">>}

\* the absent notation, every string of up to MaxIpa characters over
\* IpaChars, and the written ones
IpaTexts ==
    {None}
    \cup {Some(t) : t \in UNION {StringsOfLength(IpaChars, n) : n \in 0..MaxIpa}}
    \cup {Some(t) : t \in WrittenIpa}

InitPronounce ==
    /\ p1 \in IpaTexts
    /\ p2 \in IpaTexts
    /\ pairKind = "none"
    /\ pairScore = 0
    /\ IdleMain
    /\ IdleFilter
    /\ IdleStore
    /\ IdleSync

ComparePronunciations ==
    /\ pairKind = "none"
    /\ pairKind' = "pronunciation"
    /\ pairScore' = getPronunciationSimilarity(p1, p2)
    /\ UNCHANGED <<name, allNames, threshold, similar, idx, pc, p1, p2>>
    /\ UNCHANGED auxVars

NextPronounce == ComparePronunciations

SpecPronounce == InitPronounce /\ [][NextPronounce]_vars

----------------------------------------------------------------------------
(* Specification Spec: one call of findSimilarNames.  forEach visits the     *)
(* corpus in order, one element per step; a TypeError raised in the callback *)
(* ends the call without a result; after the last element the list is       *)
(* sorted and returned.                                                      *)

Init ==
    /\ name \in NamePool
    /\ allNames \in Corpora
    /\ threshold \in Thresholds
    /\ similar = <<>>
    /\ idx = 1
    /\ pc = "scan"
    /\ IdlePair
    /\ IdleFilter
    /\ IdleStore
    /\ IdleSync

Visiting == pc = "scan" /\ idx <= Len(allNames)

\* exclusion rule 1: `if (otherName.id === currentName.id) return`
VisitSelf ==
    /\ Visiting
    /\ allNames[idx].id = name.id
    /\ idx' = idx + 1
    /\ UNCHANGED <<name, allNames, threshold, similar, pc, p1, p2, pairKind, pairScore>>
    /\ UNCHANGED auxVars

\* exclusion rule 2: a declared relation, in either direction
VisitRelated ==
    /\ Visiting
    /\ allNames[idx].id # name.id
    /\ IsDeclaredRelation(name, allNames[idx])
    /\ idx' = idx + 1
    /\ UNCHANGED <<name, allNames, threshold, similar, pc, p1, p2, pairKind, pairScore>>
    /\ UNCHANGED auxVars

\* the callback throws: forEach and findSimilarNames end with the exception
VisitThrow ==
    /\ Visiting
    /\ allNames[idx].id # name.id
    /\ ~IsDeclaredRelation(name, allNames[idx])
    /\ CompareThrows(name, allNames[idx])
    /\ pc' = "error"
    /\ UNCHANGED <<name, allNames, threshold, similar, idx, p1, p2, pairKind, pairScore>>
    /\ UNCHANGED auxVars

\* the callback scores the candidate and pushes it when it qualifies
VisitCompare ==
    /\ Visiting
    /\ allNames[idx].id # name.id
    /\ ~IsDeclaredRelation(name, allNames[idx])
    /\ ~CompareThrows(name, allNames[idx])
    /\ similar' = PushIfSimilar(similar, name, allNames[idx], threshold)
    /\ idx' = idx + 1
    /\ UNCHANGED <<name, allNames, threshold, pc, p1, p2, pairKind, pairScore>>
    /\ UNCHANGED auxVars

\* `return similar.sort(...)`
\* variant of SortAndReturn: the corpus is put in the order of the results
SortAndReturnCorpus ==
    /\ pc = "scan"
    /\ idx > Len(allNames)
    /\ similar' = SortSimilar(similar)
    /\ allNames' = [i \in 1..Len(allNames) |->
                       IF i <= Len(similar) THEN SortSimilar(similar)[i].name ELSE allNames[i]]
    /\ pc' = "done"
    /\ UNCHANGED <<name, threshold, idx, p1, p2, pairKind, pairScore>>
    /\ UNCHANGED auxVars

SortAndReturn ==
    /\ pc = "scan"
    /\ idx > Len(allNames)
    /\ similar' = SortSimilar(similar)
    /\ pc' = "done"
    /\ UNCHANGED <<name, allNames, threshold, idx, p1, p2, pairKind, pairScore>>
    /\ UNCHANGED auxVars

Next == VisitSelf \/ VisitRelated \/ VisitThrow \/ VisitCompare \/ SortAndReturn

Spec == Init /\ [][Next]_vars

----------------------------------------------------------------------------
(* Claims about the classification of one pair of paths *)

\* the segments of a path as written, split on " > "
SegmentsOf(p) == split(p, PathSep)

\* equal depth n >= 2, first n-1 segments equal, last segments differ
SameParentDifferentLeaf(a, b) ==
    LET sa == SegmentsOf(a)
        sb == SegmentsOf(b)
        n == Len(sa)
    IN  /\ Len(sb) = n
        /\ n >= 2
        /\ SubSeq(sa, 1, n - 1) = SubSeq(sb, 1, n - 1)
        /\ sa[n] # sb[n]

\* equal depth n >= 3, first n-2 segments equal, segment n-1 differs
SameGrandparentDifferentParent(a, b) ==
    LET sa == SegmentsOf(a)
        sb == SegmentsOf(b)
        n == Len(sa)
    IN  /\ Len(sb) = n
        /\ n >= 3
        /\ SubSeq(sa, 1, n - 2) = SubSeq(sb, 1, n - 2)
        /\ sa[n - 1] # sb[n - 1]

\* C1: two paths with the same parent and different leaves score the sibling
\* tier, 40 for categories and 25 for origins.
C1_SiblingTier ==
    SameParentDifferentLeaf(p1, p2) =>
        /\ (pairKind = "category" => pairScore = CategorySibling)
        /\ (pairKind = "origin" => pairScore = OriginSibling)

\* C2: two paths with the same grandparent and different parents score the
\* cousin tier, 10 for categories and 8 for origins.
C2_CousinTier ==
    SameGrandparentDifferentParent(p1, p2) =>
        /\ (pairKind = "category" => pairScore = CategoryCousin)
        /\ (pairKind = "origin" => pairScore = OriginCousin)

\* the segments of a are a proper prefix of the segments of b
StrictAncestor(a, b) ==
    /\ Len(SegmentsOf(a)) < Len(SegmentsOf(b))
    /\ SubSeq(SegmentsOf(b), 1, Len(SegmentsOf(a))) = SegmentsOf(a)

\* C13: when one path is a strict ancestor of the other, in either argument
\* order and at any distance, the pair scores the parent-child tier, 30 for
\* categories and 20 for origins.
C13_ParentChildTier ==
    (StrictAncestor(p1, p2) \/ StrictAncestor(p2, p1)) =>
        /\ (pairKind = "category" => pairScore = CategoryParentChild)
        /\ (pairKind = "origin" => pairScore = OriginParentChild)

\* an origin pair two levels apart, the descendant given first, has been scored
C13_Witness ==
    /\ pairKind = "origin"
    /\ StrictAncestor(p2, p1)
    /\ Len(SegmentsOf(p1)) = Len(SegmentsOf(p2)) + 2

\* C14: two paths whose first segments differ score 0, under the category
\* tiers and under the origin tiers.
C14_DisjointPathsScoreZero ==
    (/\ pairKind \in {"category", "origin"}
     /\ SegmentsOf(p1)[1] # SegmentsOf(p2)[1]) => pairScore = 0

----------------------------------------------------------------------------
(* Claims about one call of findSimilarNames *)

\* the candidate has an entry in the list `similar`
InResult(otherName) == \E j \in 1..Len(similar) : similar[j].name = otherName

\* the names of the relations a record declares, read from the record
DeclaredNames(n) ==
    IF n.relatedNames = None THEN {}
    ELSE {Val(n.relatedNames)[k].name : k \in 1..Len(Val(n.relatedNames))}

\* a declared relation links a and b, in one direction or the other
Linked(a, b) == b.name \in DeclaredNames(a) \/ a.name \in DeclaredNames(b)

\* C3: a candidate linked to the target by a declared relation, in either
\* direction, is never in the result, whatever its other signals score.
C3_DeclaredRelationExcluded ==
    \A i \in 1..Len(allNames) : Linked(name, allNames[i]) => ~InResult(allNames[i])

\* the call has returned; a candidate declares the target as a relation, its
\* other signals reach the threshold, and it is not in the result
C3_Witness ==
    /\ pc = "done"
    /\ threshold >= 1
    /\ \E i \in 1..Len(allNames) :
          /\ allNames[i].id # name.id
          /\ name.name \in DeclaredNames(allNames[i])
          /\ Accumulate(name, allNames[i]).score >= threshold
          /\ ~InResult(allNames[i])

\* at least one reason, and a score that reaches the threshold of the call
Qualifies(acc) == Len(acc.reasons) > 0 /\ acc.score >= threshold

\* C4: when the call has returned, an entry with the id of the target is not
\* in the result, and an entry with another id and no declared relation to
\* the target is in the result exactly when a signal produced a reason and
\* its score is at least the threshold.
C4_ResultMembership ==
    pc = "done" =>
        \A i \in 1..Len(allNames) :
            IF allNames[i].id = name.id THEN ~InResult(allNames[i])
            ELSE ~Linked(name, allNames[i]) =>
                    (InResult(allNames[i]) <=> Qualifies(Accumulate(name, allNames[i])))

\* the call has returned on a corpus that holds the target itself, with a
\* result whose score is exactly the threshold
C4_Witness ==
    /\ pc = "done"
    /\ threshold >= 1
    /\ \E i \in 1..Len(allNames) : allNames[i].id = name.id
    /\ \E j \in 1..Len(similar) : similar[j].score = threshold

\* C5: findSimilarNames raises no error, whichever of the optional fields of
\* the target and of the candidates are absent.
C5_NoErrorOnAbsentFields == pc # "error"

\* a record whose only field besides id and name is the single root `root`
OnlyRoot(n, root) == n = [Blank(n.id, n.name) EXCEPT !.roots = Some(<<root>>)]

\* "shared root (greek: philos)"
TagPhilosLower == <<"s","h","a","r","e","d"," ","r","o","o","t"," ","(","g","r","e","e","k",":"," ","p","h","i","l","o","s",")">>

\* C6: with threshold 60, a target and a candidate of different names and
\* ids whose only field is the root "Greek: philos (love)": the candidate is
\* returned with a score of at least 80 and a reason that contains
\* "shared root (greek: philos)".
C6_PhilosRootMatch ==
    (pc = "done" /\ threshold = 60 /\ OnlyRoot(name, RootPhilos)) =>
        \A i \in 1..Len(allNames) :
            (/\ allNames[i].id # name.id
             /\ allNames[i].name # name.name
             /\ OnlyRoot(allNames[i], RootPhilos)) =>
                \E j \in 1..Len(similar) :
                    /\ similar[j].name = allNames[i]
                    /\ similar[j].score >= 80
                    /\ includes(similar[j].reason, TagPhilosLower)

\* a record whose only field besides id and name is one category path
OnlyCategory(n) ==
    /\ IsSome(n.meanings)
    /\ Len(Val(n.meanings)) = 1
    /\ n = [Blank(n.id, n.name) EXCEPT !.meanings = n.meanings]

\* two paths of three segments with the same first and different second segments
Depth3SharingTopOnly(c1, c2) ==
    /\ Len(SegmentsOf(c1)) = 3
    /\ Len(SegmentsOf(c2)) = 3
    /\ SegmentsOf(c1)[1] = SegmentsOf(c2)[1]
    /\ SegmentsOf(c1)[2] # SegmentsOf(c2)[2]

\* the only relation between a and b is a pair of distant categories
DistantCategoriesOnly(a, b) ==
    /\ a.id # b.id
    /\ OnlyCategory(a)
    /\ OnlyCategory(b)
    /\ Depth3SharingTopOnly(Val(a.meanings)[1], Val(b.meanings)[1])
    /\ ~getSoundSimilarity(a.name, b.name)

TopSegment(path) == trim(SegmentsOf(path)[1])

\* no origin of a equals an origin of b up to case, nor shares its first segment
NoOriginInCommon(a, b) ==
    \A i \in 1..Len(ListOf(a.origin)), j \in 1..Len(ListOf(b.origin)) :
        /\ toLowerCase(Val(a.origin)[i]) # toLowerCase(Val(b.origin)[j])
        /\ TopSegment(Val(a.origin)[i]) # TopSegment(Val(b.origin)[j])

\* a and b have the same name up to case, different ids, no origin in common
\* and no other field
FalseCognateOnly(a, b) ==
    /\ a.id # b.id
    /\ toLowerCase(a.name) = toLowerCase(b.name)
    /\ a = [Blank(a.id, a.name) EXCEPT !.origin = a.origin]
    /\ b = [Blank(b.id, b.name) EXCEPT !.origin = b.origin]
    /\ NoOriginInCommon(a, b)

\* C8: a candidate with the name of the target up to case, no origin in
\* common and no other signal is not returned for any threshold >= 1.
C8_FalseCognateExcluded ==
    \A i \in 1..Len(allNames) :
        (threshold >= 1 /\ FalseCognateOnly(name, allNames[i])) => ~InResult(allNames[i])

\* the call has returned on a corpus with a false cognate of the target, both
\* with origins
C8_Witness ==
    /\ pc = "done"
    /\ threshold >= 1
    /\ \E i \in 1..Len(allNames) :
          /\ FalseCognateOnly(name, allNames[i])
          /\ IsSome(name.origin)
          /\ IsSome(allNames[i].origin)

\* the match of the roots of a and b, None when either has no roots
RootMatchOf(a, b) ==
    IF IsSome(a.roots) /\ IsSome(b.roots)
    THEN checkSharedRoots(Val(a.roots), Val(b.roots))
    ELSE None

RootPointsOf(rootMatch) == IF IsSome(rootMatch) THEN Val(rootMatch).score ELSE 0

RootTagOf(rootMatch) ==
    IF IsSome(rootMatch)
    THEN TagSharedRootOpen \o Val(rootMatch).sharedRoot \o TagSharedRootClose
    ELSE <<>>

RECURSIVE SumSeq(_)
SumSeq(points) == IF points = <<>> THEN 0 ELSE Head(points) + SumSeq(Tail(points))

\* the points of the five signals that precede spelling
PointsBeforeSpelling(a, b) ==
    <<RootPointsOf(RootMatchOf(a, b)),
      getPronunciationSimilarity(a.pronunciation, b.pronunciation),
      getEtymologySimilarity(a.etymology, b.etymology),
      getHierarchicalCategorySimilarity(ListOf(a.meanings), ListOf(b.meanings)),
      getLiteralMeaningSimilarity(a.meaning, b.meaning)>>

\* the points of the eight signals, given those of the first five
PointsFrom(before, a, b) ==
    before \o
    <<IF /\ getSoundSimilarity(a.name, b.name)
         /\ (~isFalseCognate(a, b) \/ SumSeq(before) > 0)
      THEN 50 ELSE 0,
      getHierarchicalOriginSimilarity(a.origin, b.origin),
      IF getFeelingsSimilarity(ListOf(a.feelings), ListOf(b.feelings)) THEN 8 ELSE 0>>

SignalPoints(a, b) == PointsFrom(PointsBeforeSpelling(a, b), a, b)

\* the tags of the eight signals, in the fixed order
SignalTags(a, b) ==
    <<RootTagOf(RootMatchOf(a, b)), TagPronunciation, TagEtymology, TagCategory,
      TagMeaning, TagSpelling, TagOrigin, TagFeeling>>

\* the tags of the signals with more than 0 points, in order
RECURSIVE TagsOfPositive(_, _)
TagsOfPositive(points, tags) ==
    IF points = <<>> THEN <<>>
    ELSE (IF Head(points) > 0 THEN <<Head(tags)>> ELSE <<>>)
         \o TagsOfPositive(Tail(points), Tail(tags))

\* a result made of the given points and tags: the sum, and the joined tags
\* of the signals with more than 0 points
ComposedOf(result, points, tags) ==
    /\ result.score = SumSeq(points)
    /\ result.reason = join(TagsOfPositive(points, tags), ReasonSeparator)

\* C9: the score of every returned candidate is the sum of the points of the
\* eight signals, and its reason is the ", "-joined list of the tags of the
\* signals with more than 0 points, each once, in the fixed order.
C9_ResultComposition ==
    pc = "done" =>
        \A j \in 1..Len(similar) :
            ComposedOf(similar[j], SignalPoints(name, similar[j].name),
                       SignalTags(name, similar[j].name))

\* the call has returned a candidate on which all eight signals fired
C9_Witness ==
    /\ pc = "done"
    /\ \E j \in 1..Len(similar) :
          \A k \in 1..8 : SignalPoints(name, similar[j].name)[k] > 0

\* the place of a lower-case letter or digit in code-unit order
CodeRank(c) == IF c \in DigitSet THEN DigitValue[c] ELSE 10 + LetterRank[c]

\* s is before t in code-unit order
RECURSIVE LexLess(_, _)
LexLess(s, t) ==
    IF t = <<>> THEN FALSE
    ELSE IF s = <<>> THEN TRUE
    ELSE IF Head(s) # Head(t) THEN CodeRank(Head(s)) < CodeRank(Head(t))
    ELSE LexLess(Tail(s), Tail(t))

LowerName(r) == toLowerCase(r.name.name)

\* C10 as stated: of two consecutive results, the first has the greater
\* score, or the scores are equal and the name of the first is not after the
\* name of the second in case-insensitive order.
C10_OrderedCaseInsensitive ==
    pc = "done" =>
        \A j \in 1..(Len(similar) - 1) :
            \/ similar[j].score > similar[j + 1].score
            \/ /\ similar[j].score = similar[j + 1].score
               /\ ~LexLess(LowerName(similar[j + 1]), LowerName(similar[j]))

\* C10 amended: of two consecutive results, the first has the greater score,
\* or the scores are equal and the name of the first is not after the name
\* of the second in the case-insensitive order that compares runs of digits
\* by their numeric value.
C10_OrderedNaturalNumeric ==
    pc = "done" =>
        \A j \in 1..(Len(similar) - 1) :
            \/ similar[j].score > similar[j + 1].score
            \/ /\ similar[j].score = similar[j + 1].score
               /\ localeCompare(LowerName(similar[j]), LowerName(similar[j + 1])) <= 0

\* the call has returned two consecutive results of equal score whose names
\* the numeric order and the code-unit order place differently
C10_Witness ==
    /\ pc = "done"
    /\ \E j \in 1..(Len(similar) - 1) :
          /\ similar[j].score = similar[j + 1].score
          /\ LexLess(LowerName(similar[j + 1]), LowerName(similar[j]))

----------------------------------------------------------------------------
(* Claims about calls on rearranged corpora *)

\* the rearrangements of the positions 1..n
Rearrangements(n) ==
    {q \in [1..n -> 1..n] : \A i \in 1..n, j \in 1..n : q[i] = q[j] => i = j}

Rearranged(list, q) == [i \in 1..Len(list) |-> list[q[i]]]

\* C11: a call on any rearrangement of the corpus returns the same list,
\* element by element.
C11_ScanOrderIndependent ==
    pc = "done" =>
        \A q \in Rearrangements(Len(allNames)) :
            findSimilarNames(name, Rearranged(allNames, q), threshold) = similar

----------------------------------------------------------------------------
(* Claims about checkSharedRoots on two single roots *)

\* the comparison has returned the score n
RootsScored(n) == IsSome(pairScore) /\ Val(pairScore).score = n

\* an explanation without its quotes and surrounding white space, lower case
PlainExplanation(e) == trim(removeChars(toLowerCase(e), QuoteChars))

\* p1 and p2 are the roots `i1 (e1)` and `i2 (e2)`
ComparedRoots(i1, e1, i2, e2) ==
    /\ pairKind = "roots"
    /\ p1 = RootText(i1, Some(e1))
    /\ p2 = RootText(i2, Some(e2))

\* identical roots score 80; roots of different identifiers give null
IdenticalAndDisjointRoots ==
    pairKind = "roots" =>
        /\ (p1 = p2 => RootsScored(80))
        /\ \A i1 \in RootIdentifiers, i2 \in RootIdentifiers :
              \A e1 \in {None} \cup {Some(x) : x \in RootExplanations},
                 e2 \in {None} \cup {Some(x) : x \in RootExplanations} :
                  (/\ p1 = RootText(i1, e1)
                   /\ p2 = RootText(i2, e2)
                   /\ toLowerCase(i1) # toLowerCase(i2)) => pairScore = None

----------------------------------------------------------------------------
(* Claims about the taxonomy filters *)

\* the filters that take a list of selected paths
ListFilters == {"pageOrigins", "generatorOrigins", "generatorCategoriesAll", "generatorCategoriesAny"}

\* the path is the selector or continues it after the delimiter " > "
AtOrBelow(path, selector) ==
    \/ path = selector
    \/ /\ Len(path) >= Len(selector) + 3
       /\ SubSeq(path, 1, Len(selector)) = selector
       /\ SubSeq(path, Len(selector) + 1, Len(selector) + 3) = <<" ", ">", " ">>

\* the name has a path at or below the selector
HasPathAtOrBelow(paths, selector) ==
    /\ IsSome(paths)
    /\ \E i \in 1..Len(Val(paths)) : AtOrBelow(Val(paths)[i], selector)

\* the selectors spelled by the level selects of the library page that are not "all"
LevelSelectors ==
    (IF levels[1] # AllFilter THEN {levels[1]} ELSE {})
    \cup (IF levels[2] # AllFilter THEN {levels[1] \o PathSep \o levels[2]} ELSE {})
    \cup (IF levels[3] # AllFilter
          THEN {levels[1] \o PathSep \o levels[2] \o PathSep \o levels[3]} ELSE {})

\* C15: a name passes a filter with one selector S exactly when one of its
\* paths is S or starts with S followed by " > "; a path that only has S as
\* a string prefix does not match.
C15_FilterMode ==
    /\ (filterKind \in ListFilters /\ Len(selected) = 1) =>
           (passes <=> HasPathAtOrBelow(namePaths, selected[1]))
    /\ filterKind = "pageCategories" =>
           (passes <=> \A selector \in LevelSelectors : HasPathAtOrBelow(namePaths, selector))
    /\ (/\ filterKind = "pageCategories"
        /\ levels[1] # AllFilter
        /\ levels[2] # AllFilter
        /\ levels[3] = AllFilter) =>
           (passes <=> HasPathAtOrBelow(namePaths, levels[1] \o PathSep \o levels[2]))

\* a name whose only path has the selector as a string prefix, without the
\* delimiter, has been filtered out
C15_Witness ==
    /\ filterKind \in ListFilters
    /\ Len(selected) = 1
    /\ IsSome(namePaths)
    /\ Len(Val(namePaths)) = 1
    /\ startsWith(Val(namePaths)[1], selected[1])
    /\ Val(namePaths)[1] # selected[1]
    /\ ~passes

\* the outcome of a list filter on the name for another selection
FilterOutcome(kind, paths, selection) ==
    CASE kind = "pageOrigins" -> matchesOrigin(paths, selection)
      [] kind = "generatorOrigins" -> generatorOriginFilter(paths, selection)
      [] kind = "generatorCategoriesAll" -> generatorCategoryFilter(paths, selection, "and")
      [] kind = "generatorCategoriesAny" -> generatorCategoryFilter(paths, selection, "any")

\* C16: filtering with a selector and one of its descendants keeps exactly
\* the names kept by filtering with the descendant alone, in every filter
\* that takes a list of selectors.
C16_MostSpecificSelection ==
    (filterKind \in ListFilters /\ Len(selected) = 2) =>
        /\ StrictAncestor(selected[1], selected[2]) =>
               passes = FilterOutcome(filterKind, namePaths, <<selected[2]>>)
        /\ StrictAncestor(selected[2], selected[1]) =>
               passes = FilterOutcome(filterKind, namePaths, <<selected[1]>>)

----------------------------------------------------------------------------
(* Claims about pronunciationsRhyme *)

\* a pronunciation in lower case without its white space
Normalized(t) == SelectSeq([i \in 1..Len(t) |-> ToLowerChar(t[i])], LAMBDA c : c # " ")

\* the text after the last hyphen
FinalSyllable(t) ==
    IF \E i \in 1..Len(t) : t[i] = "-"
    THEN SubSeq(t, (CHOOSE i \in 1..Len(t) : t[i] = "-" /\ \A j \in (i + 1)..Len(t) : t[j] # "-") + 1, Len(t))
    ELSE t

\* the number of characters of a syllable before its first vowel; none when
\* it has no vowel
OnsetLength(y) ==
    IF \E i \in 1..Len(y) : y[i] \in {"a", "e", "i", "o", "u", "y"}
    THEN (CHOOSE i \in 1..Len(y) :
              /\ y[i] \in {"a", "e", "i", "o", "u", "y"}
              /\ \A j \in 1..(i - 1) : y[j] \notin {"a", "e", "i", "o", "u", "y"}) - 1
    ELSE 0

OnsetOf(y) == SubSeq(y, 1, OnsetLength(y))
RhymePartOf(y) == SubSeq(y, OnsetLength(y) + 1, Len(y))

\* the conditions under which two pronunciations rhyme
ShouldRhyme(a, b) ==
    /\ IsSome(a)
    /\ IsSome(b)
    /\ Normalized(Val(a)) # Normalized(Val(b))
    /\ Len(FinalSyllable(Normalized(Val(a)))) >= 2
    /\ Len(FinalSyllable(Normalized(Val(b)))) >= 2
    /\ RhymePartOf(FinalSyllable(Normalized(Val(a)))) = RhymePartOf(FinalSyllable(Normalized(Val(b))))
    /\ Len(RhymePartOf(FinalSyllable(Normalized(Val(a))))) >= 2
    /\ OnsetOf(FinalSyllable(Normalized(Val(a)))) # OnsetOf(FinalSyllable(Normalized(Val(b))))

\* C17: pronunciationsRhyme is true exactly when both pronunciations are
\* present, their normalized forms differ, both final syllables have at
\* least 2 characters, the rhyme parts are equal and at least 2 characters
\* long and the onsets differ; a pronunciation never rhymes with itself.
C17_RhymeExactly ==
    pairKind = "rhyme" =>
        /\ pairScore = ShouldRhyme(p1, p2)
        /\ (p1 = p2 => pairScore = FALSE)

\* two pronunciations of several syllables have been found to rhyme
C17_Witness ==
    /\ pairKind = "rhyme"
    /\ pairScore = TRUE
    /\ \E i \in 1..Len(Val(p1)) : Val(p1)[i] = "-"

----------------------------------------------------------------------------
(* Claims about levenshteinDistance *)

\* the word without its character at position i
Without(w, i) == SubSeq(w, 1, i - 1) \o SubSeq(w, i + 1, Len(w))

\* t is s after one insertion, one deletion or one substitution
OneEdit(s, t) ==
    \/ Len(t) = Len(s) + 1 /\ \E i \in 1..Len(t) : Without(t, i) = s
    \/ Len(s) = Len(t) + 1 /\ \E i \in 1..Len(s) : Without(s, i) = t
    \/ /\ Len(s) = Len(t)
       /\ \E i \in 1..Len(s) : s[i] # t[i] /\ \A j \in 1..Len(s) : j # i => s[j] = t[j]

\* the short words within k edits of the word a
RECURSIVE WithinEdits(_, _)
WithinEdits(a, k) ==
    IF k = 0 THEN {a}
    ELSE CHOOSE ball \in {near \cup {t \in ShortWords : \E w \in near : OneEdit(w, t)} :
                            near \in {WithinEdits(a, k - 1)}} : TRUE

\* the least number of edits that turn the short word a into the short word b
MinimumEdits(a, b) ==
    CHOOSE k \in 0..(2 * MaxWord) :
        /\ b \in WithinEdits(a, k)
        /\ \A h \in 0..(k - 1) : b \notin WithinEdits(a, h)

\* C18: levenshteinDistance(a, b) is the least number of insertions,
\* deletions and substitutions of one character that turn a into b; hence
\* it is 0 for equal words, the same in both argument orders, and the length
\* of a when b is empty; "kitten" and "sitting" are 3 apart.
C18_MinimumEdits ==
    pairKind = "distance" =>
        /\ (p1 \in ShortWords /\ p2 \in ShortWords) => pairScore = MinimumEdits(p1, p2)
        /\ p1 = p2 => pairScore = 0
        /\ pairScore = levenshteinDistance(p2, p1)
        /\ p2 = <<>> => pairScore = Len(p1)
        /\ (p1 = <<"k","i","t","t","e","n">> /\ p2 = <<"s","i","t","t","i","n","g">>) => pairScore = 3

\* two words of full length that differ in every position have been compared
C18_Witness ==
    /\ pairKind = "distance"
    /\ Len(p1) = MaxWord
    /\ Len(p2) = MaxWord
    /\ \A i \in 1..MaxWord : p1[i] # p2[i]
    /\ pairScore = MaxWord

----------------------------------------------------------------------------
(* Claims about the effects of a call of findSimilarNames *)

----------------------------------------------------------------------------
(* Claims about mergeNameEntries *)

\* the entry of the list with the given id
EntryOf(list, id) == list[CHOOSE i \in 1..Len(list) : list[i].id = id]

\* the names of the related entries of an entry
RelatedNameSet(entry) ==
    {OrEmpty(entry.relatedNames)[i].name : i \in 1..Len(OrEmpty(entry.relatedNames))}

\* the list holds the outcome of the merge: no entry of the merged id, and
\* the primary entry relates, once each, the names both entries related and
\* the name of the merged entry, as an alternate spelling when it is new
HoldsMerge(list, primaryId, mergeId, before) ==
    /\ \A i \in 1..Len(list) : list[i].id # mergeId
    /\ \E i \in 1..Len(list) : list[i].id = primaryId
    /\ RelatedNameSet(EntryOf(list, primaryId))
          = RelatedNameSet(EntryOf(before, primaryId))
            \cup RelatedNameSet(EntryOf(before, mergeId))
            \cup {EntryOf(before, mergeId).name}
    /\ Len(OrEmpty(EntryOf(list, primaryId).relatedNames))
          = Cardinality(RelatedNameSet(EntryOf(list, primaryId)))
    /\ (EntryOf(before, mergeId).name \notin
            RelatedNameSet(EntryOf(before, primaryId)) \cup RelatedNameSet(EntryOf(before, mergeId)))
          => \E i \in 1..Len(OrEmpty(EntryOf(list, primaryId).relatedNames)) :
                 OrEmpty(EntryOf(list, primaryId).relatedNames)[i]
                   = [type |-> "alternateSpelling", name |-> EntryOf(before, mergeId).name]

\* C20: after mergeNameEntries(primaryId, mergeId) on two entries of the
\* list, the state and localStorage hold no entry of id mergeId, and the
\* entry of id primaryId relates the merged entry's name as an alternate
\* spelling together with the related names of both entries, once each.
C20_MergeResult ==
    IsSome(lastMerge) =>
        /\ HoldsMerge(names, Val(lastMerge).primaryId, Val(lastMerge).mergeId, Val(lastMerge).before)
        /\ HoldsMerge(stored, Val(lastMerge).primaryId, Val(lastMerge).mergeId, Val(lastMerge).before)

----------------------------------------------------------------------------
(* Claims about the scoring of one candidate *)

\* the spelling step without the false-cognate condition
SpellingUnguarded(acc, a, b) ==
    IF getSoundSimilarity(a.name, b.name)
    THEN [score |-> acc.score + 50, reasons |-> Append(acc.reasons, TagSpelling)]
    ELSE acc

\* score and reasons before the spelling step
BeforeSpelling(a, b) ==
    AddMeaning(AddCategory(AddEtymology(AddPronunciation(
        AddRoots([score |-> 0, reasons |-> <<>>], a, b), a, b), a, b), a, b), a, b)

\* C23: a pair with similar spelling is never a false cognate, so the
\* scoring ends as it would without the false-cognate condition, and the
\* spelling step adds the same whether or not earlier signals scored.
C23_FalseCognateNeverDecides ==
    pairKind = "scored" =>
        /\ getSoundSimilarity(p1.name, p2.name) => ~isFalseCognate(p1, p2)
        /\ pairScore = AddFeelings(AddOrigin(
                            SpellingUnguarded(BeforeSpelling(p1, p2), p1, p2), p1, p2), p1, p2)
        /\ AddSpelling([score |-> 0, reasons |-> <<>>], p1, p2)
              = SpellingUnguarded([score |-> 0, reasons |-> <<>>], p1, p2)

\* a pair of names equal up to case and of unrelated origins has been scored
C23_Witness ==
    /\ pairKind = "scored"
    /\ isFalseCognate(p1, p2)
    /\ ~arrayIncludes(pairScore.reasons, TagSpelling)

\* the names in lower case
Folded(n) == [i \in 1..Len(n.name) |-> ToLowerChar(n.name[i])]

\* the lengths differ by at most 3 and the edit distance d satisfies
\* 0 < d <= 0.3 x the greater length
SpelledAlike(a, b) ==
    /\ Len(Folded(a)) - Len(Folded(b)) <= 3
    /\ Len(Folded(b)) - Len(Folded(a)) <= 3
    /\ levenshteinDistance(Folded(a), Folded(b)) > 0
    /\ 10 * levenshteinDistance(Folded(a), Folded(b))
          <= 3 * (IF Len(Folded(a)) >= Len(Folded(b)) THEN Len(Folded(a)) ELSE Len(Folded(b)))

\* C24: the spelling signal, 50 points and the tag "similar spelling", is
\* added exactly when the names are spelled alike and the pair is not a
\* false cognate or the five earlier signals have scored; origin and
\* feelings points play no part.
C24_SpellingSignal ==
    pairKind = "scored" =>
        /\ arrayIncludes(pairScore.reasons, TagSpelling)
              <=> (/\ SpelledAlike(p1, p2)
                   /\ (~isFalseCognate(p1, p2) \/ SumSeq(PointsBeforeSpelling(p1, p2)) > 0))
        /\ pairScore.score
              = SumSeq(PointsBeforeSpelling(p1, p2))
                + (IF arrayIncludes(pairScore.reasons, TagSpelling) THEN 50 ELSE 0)
                + getHierarchicalOriginSimilarity(p1.origin, p2.origin)
                + (IF getFeelingsSimilarity(ListOf(p1.feelings), ListOf(p2.feelings)) THEN 8 ELSE 0)

\* a pair with the spelling signal, origin points and earlier points has
\* been scored
C24_Witness ==
    /\ pairKind = "scored"
    /\ arrayIncludes(pairScore.reasons, TagSpelling)
    /\ arrayIncludes(pairScore.reasons, TagOrigin)
    /\ SumSeq(PointsBeforeSpelling(p1, p2)) > 0

\* the candidate b is returned by findSimilarNames(a, [b], limit)
Returned(a, b, limit) ==
    \E j \in 1..Len(findSimilarNames(a, <<b>>, limit)) :
        findSimilarNames(a, <<b>>, limit)[j].name = b

\* C26: for two names of different ids and any threshold, the second is
\* returned for the first exactly when the first is returned for the
\* second, and with the same score.
C26_Mutual ==
    (pairKind = "scored" /\ ~CompareThrows(p2, p1)) =>
        /\ pairScore.score = Accumulate(p2, p1).score
        /\ \A limit \in Thresholds : Returned(p1, p2, limit) <=> Returned(p2, p1, limit)

----------------------------------------------------------------------------
(* Claims about getEtymologySimilarity *)

\* the distinct tokens of a text: lower-cased, split on white space, longer
\* than 3 characters and no stop word
TokenSet(text) ==
    {getWords(toLowerCase(text))[i] : i \in 1..Len(getWords(toLowerCase(text)))}

\* C25: the etymology score is fixed by the number k of distinct tokens
\* present in both texts, each token counted once: k >= 3 gives 75, 2 gives
\* 50, 1 gives 25, 0 gives 0; an absent text gives 0.
C25_DistinctSharedTokens ==
    pairKind = "etymology" =>
        IF ~IsSome(p1) \/ ~IsSome(p2) THEN pairScore = 0
        ELSE pairScore =
                CASE Cardinality(TokenSet(Val(p1)) \cap TokenSet(Val(p2))) >= 3 -> 75
                  [] Cardinality(TokenSet(Val(p1)) \cap TokenSet(Val(p2))) = 2 -> 50
                  [] Cardinality(TokenSet(Val(p1)) \cap TokenSet(Val(p2))) = 1 -> 25
                  [] OTHER -> 0

----------------------------------------------------------------------------
(* Claims about getPronunciationSimilarity *)

\* lower-cased and without '/', '[' and ']'
Stripped(text) ==
    SelectSeq([i \in 1..Len(text) |-> ToLowerChar(text[i])],
              LAMBDA c : c \notin {"/", "[", "]"})

\* Stripped, then without the white space at both ends
Cleaned(text) == trim(Stripped(text))

\* the reasons findSimilarNames collects up to the pronunciation step for
\* two names that carry nothing but these pronunciations
PronunciationReasons(a, b) ==
    AddPronunciation([score |-> 0, reasons |-> <<>>],
                     [Blank("a", <<"A">>) EXCEPT !.pronunciation = a],
                     [Blank("b", <<"B">>) EXCEPT !.pronunciation = b]).reasons

\* C28: two present pronunciations that are both empty once '/', '[' and
\* ']' are removed and the rest is trimmed score 0 and give no "similar
\* pronunciation" reason.
C28_EmptyAfterCleaning ==
    (/\ pairKind = "pronunciation"
     /\ Truthy(p1) /\ Truthy(p2)
     /\ Cleaned(Val(p1)) = <<>> /\ Cleaned(Val(p2)) = <<>>) =>
        /\ pairScore = 0
        /\ ~arrayIncludes(PronunciationReasons(p1, p2), TagPronunciation)

\* the tiers on two cleaned strings: 80 when equal, 60 when d <= 0.2 x
\* maxLen, 40 when d <= 0.4 x maxLen, else 0
Tier(q1, q2) ==
    IF q1 = q2 THEN 80
    ELSE IF 5 * levenshteinDistance(q1, q2)
              <= (IF Len(q1) >= Len(q2) THEN Len(q1) ELSE Len(q2)) THEN 60
    ELSE IF 5 * levenshteinDistance(q1, q2)
              <= 2 * (IF Len(q1) >= Len(q2) THEN Len(q1) ELSE Len(q2)) THEN 40
    ELSE 0

----------------------------------------------------------------------------
(* Claims about checkSharedRoots on lists of compound roots *)

\* the comparisons of all element pairs of two roots: <<i, j, score>>
Comparisons(elements1, elements2) ==
    {<<i, j, compareRootElements(elements1[i], elements2[j])>> :
        i \in 1..Len(elements1), j \in 1..Len(elements2)}

ElementScores == {50, 60, 70, 80}

\* number of matching element pairs
MatchCount(compared) == Cardinality({c \in compared : c[3] > 0})

\* sum of the matched element scores
MatchedSum(compared) ==
    50 * Cardinality({c \in compared : c[3] = 50})
    + 60 * Cardinality({c \in compared : c[3] = 60})
    + 70 * Cardinality({c \in compared : c[3] = 70})
    + 80 * Cardinality({c \in compared : c[3] = 80})

\* the greatest matched element score
MatchedMax(compared) ==
    CHOOSE v \in ElementScores :
        /\ \E c \in compared : c[3] = v
        /\ \A c \in compared : c[3] <= v

\* round(a / b): the integer within one half of a / b, halves upward
Rounded(a, b) == CHOOSE m \in 0..100 : 2 * m * b - b <= 2 * a /\ 2 * a < 2 * m * b + b

\* the stated score of two roots with k >= 1 matching pairs, by ratio:
\* round(mean), round(mean x 0.75), round(max x 0.6) clamped to 30..50
TierScore(compared, k, total) ==
    IF 10 * k >= 8 * total THEN Rounded(MatchedSum(compared), k)
    ELSE IF 10 * k >= 5 * total THEN Rounded(75 * MatchedSum(compared), 100 * k)
    ELSE IF Rounded(6 * MatchedMax(compared), 10) < 30 THEN 30
    ELSE IF Rounded(6 * MatchedMax(compared), 10) > 50 THEN 50
    ELSE Rounded(6 * MatchedMax(compared), 10)

\* the score of two roots given the comparisons of their elements, 0 when
\* no element pair matches
ScoreOfComparisons(compared, total) ==
    IF MatchCount(compared) = 0 THEN 0
    ELSE TierScore(compared, MatchCount(compared), total)

\* the score of two roots from their elements
ScoreOfElements(elements1, elements2) ==
    CHOOSE v \in {ScoreOfComparisons(compared,
                        IF Len(elements1) >= Len(elements2)
                        THEN Len(elements1) ELSE Len(elements2)) :
                    compared \in {Comparisons(elements1, elements2)}} : TRUE

\* the score of a pair of roots, 80 for two roots found equal by `same`
StatedPairScore(r1, r2, same) ==
    IF same THEN 80
    ELSE CHOOSE v \in {ScoreOfElements(elements1, elements2) :
                          elements1 \in {extractRootElements(r1)},
                          elements2 \in {extractRootElements(r2)}} : TRUE

\* the pair scores of all pairs of roots of the two lists, equality of roots
\* being taken with or without trimming
StatedScores(trimmed) ==
    {StatedPairScore(p1[i], p2[j],
                     IF trimmed THEN trim(toLowerCase(p1[i])) = trim(toLowerCase(p2[j]))
                     ELSE toLowerCase(p1[i]) = toLowerCase(p2[j])) :
        i \in 1..Len(p1), j \in 1..Len(p2)}

\* the result is the largest of the pair scores, in 30..80, or null when all
\* are 0
LargestOf(scores) ==
    IF \A v \in scores : v = 0 THEN pairScore = None
    ELSE /\ IsSome(pairScore)
         /\ Val(pairScore).score \in scores
         /\ \A v \in scores : v <= Val(pairScore).score
         /\ Val(pairScore).score \in 30..80

\* C27 as stated: roots count as equal when they are equal without regard
\* to case; every other pair with k >= 1 matching element pairs scores by
\* its ratio k / max(elements), and checkSharedRoots returns the largest
\* pair score, in 30..80, or null.
C27_PairScoring ==
    pairKind = "rootLists" => \E scores \in {StatedScores(FALSE)} : LargestOf(scores)

\* C27: the same with roots counted as equal when they are equal once
\* lower-cased and trimmed of surrounding white space.
C27_PairScoringTrimmed ==
    pairKind = "rootLists" => \E scores \in {StatedScores(TRUE)} : LargestOf(scores)

\* two lists have been compared whose best pair lies in the middle tier and
\* scores a rounded half: one homograph match among two elements, 37.5 -> 38
C27_Witness ==
    /\ pairKind = "rootLists"
    /\ IsSome(pairScore)
    /\ Val(pairScore).score = 38
    /\ Len(p1) = 2

----------------------------------------------------------------------------
(* Claims about saving and syncing *)

\* the server holds the snapshot last saved and nothing is queued
Synced == pending = <<>> /\ server = Some(stored)

\* C21: once every POST succeeds and no further save is issued, the pending
\* queue ends up empty and the server ends up with the snapshot last saved,
\* whatever the order of POSTs, answers and timer ticks before.
C21_EventualSync == <>[]healed => <>[](saveCount > 0 => Synced)

\* the queue without its first snapshot when that is `body`, else as it is
WithoutPosted(queue, body) ==
    IF queue # <<>> /\ queue[1] = body THEN Tail(queue) ELSE queue

\* the step is the return of the retry POST f
RetryReturned(f) ==
    /\ f \in flights
    /\ f.kind = "retry"
    /\ f.res # "sent"
    /\ flights' = flights \ {f}

\* C22: when a retry POST returns, the queue loses at most the snapshot that
\* was POSTed, and only on success: what was enqueued meanwhile stays, and
\* what was cleared meanwhile does not come back.
C22_QueueIntegrity ==
    [][\A f \in flights :
          RetryReturned(f) =>
              pending' = IF f.res = "ok" THEN WithoutPosted(pending, f.body) ELSE pending]_vars

\* ascending by lower-cased name
SortedByName(list) ==
    \A i \in 1..Len(list), j \in 1..Len(list) :
        i < j => ~LexLess(toLowerCase(list[j].name), toLowerCase(list[i].name))

====
